---- MODULE Spec2Model ----
(***************************************************************************)
(* The order lifecycle of simplecom: the Order entity and its transitions  *)
(* (internal/models/order.go), the order repository over the orders table  *)
(* (internal/repository/order_repo.go), the order service                  *)
(* (internal/services/order_service.go) and the payment service that       *)
(* creates a checkout session and reconciles a session outcome             *)
(* (services/payment_service.go).                                          *)
(*                                                                         *)
(* Time is a clock of ticks; a call reads the clock once (all time.Now()   *)
(* of one call see the same tick) and Tick advances it between calls.      *)
(* Strings that the code only compares are strings; a currency code is a   *)
(* sequence of characters because the code takes its length.               *)
(***************************************************************************)
EXTENDS Integers, Sequences, FiniteSets, TLC

VARIABLES
    store,    \* the orders table: reference -> row
    clock,    \* time.Now(), in ticks
    nextId,   \* the next value uuid.New() hands out
    last,     \* the last service call: its inputs, what it called, what it returned
    ord,      \* a stand-alone Order value (the entity under test)
    ordLast,  \* the last transition call on ord
    made,     \* the orders NewOrder has returned, oldest first
    newLast,  \* the last NewOrder call: its inputs and what it returned
    proc,     \* the calls in progress when calls run concurrently: id -> position and locals
    server,   \* the http.Server: its listener, its Serve goroutine, its connections
    shutdown  \* the channel of shutdown signals (capacity 1)

vars == <<store, clock, nextId, last, ord, ordLast, made, newLast, proc, server, shutdown>>

(***************************************************************************)
(* Bounds                                                                  *)
(***************************************************************************)
MaxClock == 2

\* The width of a Go int64 in the model, in bits: the arithmetic below wraps
\* at this width as the program's wraps at 64.
IntBits == 29

(***************************************************************************)
(* Order statuses and errors                                               *)
(***************************************************************************)
OrderStatusPending == "pending"
OrderStatusAuthorized == "authorized"
OrderStatusFailed == "failed"
OrderStatusCancelled == "cancelled"

Nil == "nil"
ErrInvalidAmount == "order amount must be positive"
ErrInvalidCurrency == "currency code must be 3 characters"
ErrInvalidProductName == "product name cannot be empty"
ErrInvalidStatusTransition == "invalid order status transition"
ErrEmptyPSPReference == "PSP reference cannot be empty"
ErrInvalidOrderStatus == "invalid order status"
ErrOrderNotFound == "order not found"
ErrDatabase == "database error"
ErrGateway == "gateway error"

\* A SQL NULL in the psp_reference column.
SqlNull == "<NULL>"

NoOrder == [none |-> TRUE]
NoResult == [none |-> TRUE]

(***************************************************************************)
(* Inputs                                                                  *)
(***************************************************************************)
USD == <<"U", "S", "D">>
Currencies == {<<"U", "S">>, USD}
Amounts == {0, 100}
ProductNames == {"", "Widget"}
ReturnURLs == {"https://shop.example/return"}
SessionIDs == {"CS-1"}
SessionResults == {"R-1"}

\* time.Now().Unix(): two ticks to the second.
Unix(t) == t \div 2

\* fmt.Sprintf("ORDER-%d", n)
OrderRef(n) == <<"ORDER-", n>>

\* uuid.New().String(): the n-th identifier handed out.
UUID(n) == <<"uuid-", n>>

\* A reference no order ever gets.
UnknownRef == OrderRef(999)

\* The references an order can get within the clock's bound.
OrderRefs == {OrderRef(s) : s \in 0..Unix(MaxClock)}

\* uuid.New() hands out as many ids as the clock's bound allows references.
MaxIds == Cardinality(OrderRefs)

Attempt(resultCode, pspReference) ==
    [ResultCode |-> resultCode, PSPReference |-> pspReference]

\* The payment attempts a session outcome reports.
Attempts ==
    {Attempt("Authorised", p) : p \in {"", "PSP-9"}}
    \cup {Attempt("Refused", p) : p \in {"", "PSP-9"}}
    \cup {Attempt(c, "") : c \in {"Error", "Cancelled", "Received"}}

\* No attempt, one attempt, or two (the second a different outcome).
PaymentLists ==
    {<<>>} \cup {<<a>> : a \in Attempts}
           \cup {<<Attempt("Authorised", "PSP-1"), Attempt("Refused", "")>>}

GatewayError == [err |-> TRUE, Reference |-> UnknownRef, Payments |-> <<>>]

\* What adyenClient.GetSessionStatus can return: an error, or a response.
GwOutcomes ==
    {GatewayError}
    \cup [err : {FALSE}, Reference : OrderRefs, Payments : PaymentLists]
    \cup [err : {FALSE}, Reference : {UnknownRef},
          Payments : {<<>>, <<Attempt("Authorised", "PSP-9")>>}]

\* The store operation of a VerifyPayment call that fails at the database:
\* the payment service's fetch, the order service's fetch, or its update.
StoreFaults == {"get1", "get2", "upd"}

\* The inputs of a VerifyPayment call: the gateway's answer and the store
\* fault, if any. Each fault is tried on an Authorised outcome, and the failed
\* update on a Refused one as well.
VerifyInputs ==
    [gw : GwOutcomes, fault : {"none"}]
    \cup [gw : [err : {FALSE}, Reference : OrderRefs,
                Payments : {<<Attempt("Authorised", "PSP-9")>>}],
          fault : StoreFaults]
    \cup [gw : [err : {FALSE}, Reference : OrderRefs,
                Payments : {<<Attempt("Refused", "")>>}],
          fault : {"upd"}]

\* One entry of a call's log: the collaborator method called and its error.
Call(name, err) == [call |-> name, err |-> err]

(***************************************************************************)
(* models.Order                                                            *)
(***************************************************************************)
\* The validation that lets an amount of zero through.
validateOrderInputZero(productName, amount, currency) ==
    IF amount < 0 THEN ErrInvalidAmount
    ELSE IF Len(currency) # 3 THEN ErrInvalidCurrency
    ELSE IF productName = "" THEN ErrInvalidProductName
    ELSE Nil

\* validateOrderInput that checks its parameters in their order: product
\* name, amount, currency.
validateOrderInputNameFirst(productName, amount, currency) ==
    IF productName = "" THEN ErrInvalidProductName
    ELSE IF amount <= 0 THEN ErrInvalidAmount
    ELSE IF Len(currency) # 3 THEN ErrInvalidCurrency
    ELSE Nil

validateOrderInput(productName, amount, currency) ==
    IF amount <= 0 THEN ErrInvalidAmount
    ELSE IF Len(currency) # 3 THEN ErrInvalidCurrency
    ELSE IF productName = "" THEN ErrInvalidProductName
    ELSE Nil

NewOrder(productName, amount, currency, now, id) ==
    LET e == validateOrderInput(productName, amount, currency) IN
    IF e # Nil THEN [order |-> NoOrder, err |-> e]
    ELSE [order |-> [ID |-> UUID(id),
                     Reference |-> OrderRef(Unix(now)),
                     Amount |-> amount,
                     Currency |-> currency,
                     Status |-> OrderStatusPending,
                     ProductName |-> productName,
                     PSPReference |-> "",
                     CreatedAt |-> now,
                     UpdatedAt |-> now],
          err |-> Nil]

\* Authorize that looks at its argument before it looks at the status.
AuthorizeArgumentFirst(o, pspReference, now) ==
    IF pspReference = ""
    THEN [order |-> o, err |-> ErrEmptyPSPReference]
    ELSE IF o.Status # OrderStatusPending
    THEN [order |-> o, err |-> ErrInvalidStatusTransition]
    ELSE [order |-> [o EXCEPT !.Status = OrderStatusAuthorized,
                              !.PSPReference = pspReference,
                              !.UpdatedAt = now],
          err |-> Nil]

Authorize(o, pspReference, now) ==
    IF o.Status # OrderStatusPending
    THEN [order |-> o, err |-> ErrInvalidStatusTransition]
    ELSE IF pspReference = ""
    THEN [order |-> o, err |-> ErrEmptyPSPReference]
    ELSE [order |-> [o EXCEPT !.Status = OrderStatusAuthorized,
                              !.PSPReference = pspReference,
                              !.UpdatedAt = now],
          err |-> Nil]

\* Fail without the guard on Authorized.
FailFromAuthorized(o, now) ==
    IF o.Status = OrderStatusCancelled
    THEN [order |-> o, err |-> ErrInvalidStatusTransition]
    ELSE [order |-> [o EXCEPT !.Status = OrderStatusFailed, !.UpdatedAt = now],
          err |-> Nil]

\* Fail without the guard on Cancelled.
FailFromCancelled(o, now) ==
    IF o.Status = OrderStatusAuthorized
    THEN [order |-> o, err |-> ErrInvalidStatusTransition]
    ELSE [order |-> [o EXCEPT !.Status = OrderStatusFailed, !.UpdatedAt = now],
          err |-> Nil]

\* Fail that accepts a Pending order only.
FailOnlyFromPending(o, now) ==
    IF o.Status # OrderStatusPending
    THEN [order |-> o, err |-> ErrInvalidStatusTransition]
    ELSE [order |-> [o EXCEPT !.Status = OrderStatusFailed, !.UpdatedAt = now],
          err |-> Nil]

\* Fail that returns at once, without a new updatedAt, for an order that is
\* already Failed.
FailIdempotentUnstamped(o, now) ==
    IF o.Status \in {OrderStatusAuthorized, OrderStatusCancelled}
    THEN [order |-> o, err |-> ErrInvalidStatusTransition]
    ELSE IF o.Status = OrderStatusFailed
    THEN [order |-> o, err |-> Nil]
    ELSE [order |-> [o EXCEPT !.Status = OrderStatusFailed, !.UpdatedAt = now],
          err |-> Nil]

Fail(o, now) ==
    IF o.Status = OrderStatusAuthorized
    THEN [order |-> o, err |-> ErrInvalidStatusTransition]
    ELSE IF o.Status = OrderStatusCancelled
    THEN [order |-> o, err |-> ErrInvalidStatusTransition]
    ELSE [order |-> [o EXCEPT !.Status = OrderStatusFailed, !.UpdatedAt = now],
          err |-> Nil]

\* Cancel without its guard on Authorized.
CancelFromAuthorized(o, now) ==
    [order |-> [o EXCEPT !.Status = OrderStatusCancelled, !.UpdatedAt = now],
     err |-> Nil]

\* Cancel that rejects an order already Cancelled.
CancelNotIdempotent(o, now) ==
    IF o.Status \in {OrderStatusAuthorized, OrderStatusCancelled}
    THEN [order |-> o, err |-> ErrInvalidStatusTransition]
    ELSE [order |-> [o EXCEPT !.Status = OrderStatusCancelled, !.UpdatedAt = now],
          err |-> Nil]

\* Cancel that stamps updatedAt before it checks the status.
CancelStampsFirst(o, now) ==
    IF o.Status = OrderStatusAuthorized
    THEN [order |-> [o EXCEPT !.UpdatedAt = now], err |-> ErrInvalidStatusTransition]
    ELSE [order |-> [o EXCEPT !.Status = OrderStatusCancelled, !.UpdatedAt = now],
          err |-> Nil]

Cancel(o, now) ==
    IF o.Status = OrderStatusAuthorized
    THEN [order |-> o, err |-> ErrInvalidStatusTransition]
    ELSE [order |-> [o EXCEPT !.Status = OrderStatusCancelled, !.UpdatedAt = now],
          err |-> Nil]

(***************************************************************************)
(* repository.OrderRepository over the orders table                        *)
(***************************************************************************)
\* CreateOrder as an upsert (ON CONFLICT (reference) DO UPDATE): a stored
\* reference is no error and the row takes the new order's columns.
RepoCreateOrderUpsert(st, order, now, fault) ==
    IF fault
    THEN [store |-> st, order |-> order, err |-> ErrDatabase]
    ELSE [store |-> (order.Reference :>
                      [ID |-> order.ID,
                       Reference |-> order.Reference,
                       Amount |-> order.Amount,
                       Currency |-> order.Currency,
                       Status |-> order.Status,
                       ProductName |-> order.ProductName,
                       PSPReference |-> SqlNull,
                       CreatedAt |-> now,
                       UpdatedAt |-> now]) @@ st,
          order |-> [order EXCEPT !.CreatedAt = now, !.UpdatedAt = now],
          err |-> Nil]

\* INSERT INTO orders: id is the primary key and reference is UNIQUE; the
\* psp_reference column is not written and stays NULL.
RepoCreateOrder(st, order, now, fault) ==
    IF fault
       \/ order.Reference \in DOMAIN st
       \/ \E r \in DOMAIN st : st[r].ID = order.ID
    THEN [store |-> st, order |-> order, err |-> ErrDatabase]
    ELSE [store |-> st @@ (order.Reference :>
                      [ID |-> order.ID,
                       Reference |-> order.Reference,
                       Amount |-> order.Amount,
                       Currency |-> order.Currency,
                       Status |-> order.Status,
                       ProductName |-> order.ProductName,
                       PSPReference |-> SqlNull,
                       CreatedAt |-> now,
                       UpdatedAt |-> now]),
          order |-> [order EXCEPT !.CreatedAt = now, !.UpdatedAt = now],
          err |-> Nil]

\* COALESCE(psp_reference, '')
Coalesce(v) == IF v = SqlNull THEN "" ELSE v

\* GetOrderByReference that does not check sql.ErrNoRows: a missing row reads
\* as a zero-valued order.
RepoGetOrderByReferenceNoRows(st, reference, fault) ==
    IF fault THEN [order |-> NoOrder, err |-> ErrDatabase]
    ELSE IF reference \notin DOMAIN st
    THEN [order |-> [ID |-> <<>>, Reference |-> <<>>, Amount |-> 0,
                     Currency |-> <<>>, Status |-> "", ProductName |-> "",
                     PSPReference |-> "", CreatedAt |-> 0, UpdatedAt |-> 0],
          err |-> Nil]
    ELSE [order |-> [st[reference] EXCEPT !.PSPReference = Coalesce(@)], err |-> Nil]

RepoGetOrderByReference(st, reference, fault) ==
    IF fault THEN [order |-> NoOrder, err |-> ErrDatabase]
    ELSE IF reference \notin DOMAIN st THEN [order |-> NoOrder, err |-> ErrOrderNotFound]
    ELSE [order |-> [st[reference] EXCEPT !.PSPReference = Coalesce(@)], err |-> Nil]

\* UpdateOrderStatus as a compare-and-set: the row is written only while it
\* is Pending (WHERE reference = $4 AND status = 'pending').
RepoUpdateOrderStatusIfPending(st, reference, status, pspReference, now, fault) ==
    IF fault THEN [store |-> st, err |-> ErrDatabase]
    ELSE IF reference \notin DOMAIN st THEN [store |-> st, err |-> ErrOrderNotFound]
    ELSE IF st[reference].Status # OrderStatusPending
    THEN [store |-> st, err |-> ErrOrderNotFound]
    ELSE [store |-> [st EXCEPT ![reference] =
                        [@ EXCEPT !.Status = status,
                                  !.PSPReference = pspReference,
                                  !.UpdatedAt = now]],
          err |-> Nil]

\* UpdateOrderStatus that keeps an authorized row
\* (WHERE reference = $4 AND status <> 'authorized').
RepoUpdateOrderStatusKeepAuthorized(st, reference, status, pspReference, now, fault) ==
    IF fault THEN [store |-> st, err |-> ErrDatabase]
    ELSE IF reference \notin DOMAIN st THEN [store |-> st, err |-> ErrOrderNotFound]
    ELSE IF st[reference].Status = OrderStatusAuthorized
    THEN [store |-> st, err |-> ErrOrderNotFound]
    ELSE [store |-> [st EXCEPT ![reference] =
                        [@ EXCEPT !.Status = status,
                                  !.PSPReference = pspReference,
                                  !.UpdatedAt = now]],
          err |-> Nil]

\* UpdateOrderStatus that deletes the row of an order that becomes cancelled
\* (DELETE FROM orders WHERE reference = $4).
RepoUpdateOrderStatusDeletesCancelled(st, reference, status, pspReference, now, fault) ==
    IF fault THEN [store |-> st, err |-> ErrDatabase]
    ELSE IF reference \notin DOMAIN st THEN [store |-> st, err |-> ErrOrderNotFound]
    ELSE IF status = OrderStatusCancelled
    THEN [store |-> [r \in DOMAIN st \ {reference} |-> st[r]], err |-> Nil]
    ELSE [store |-> [st EXCEPT ![reference] =
                        [@ EXCEPT !.Status = status,
                                  !.PSPReference = pspReference,
                                  !.UpdatedAt = now]],
          err |-> Nil]

\* UPDATE orders SET status, psp_reference, updated_at WHERE reference.
\* With lib/pq, RowsAffected() returns no error, so the failures are the
\* Exec error and the row that is not there; neither changes a row.
\* UpdateOrderStatus whose failure is reported after the row was written.
RepoUpdateOrderStatusPartial(st, reference, status, pspReference, now, fault) ==
    IF reference \notin DOMAIN st THEN [store |-> st, err |-> ErrOrderNotFound]
    ELSE [store |-> [st EXCEPT ![reference] =
                        [@ EXCEPT !.Status = status,
                                  !.PSPReference = pspReference,
                                  !.UpdatedAt = now]],
          err |-> IF fault THEN ErrDatabase ELSE Nil]

RepoUpdateOrderStatus(st, reference, status, pspReference, now, fault) ==
    IF fault THEN [store |-> st, err |-> ErrDatabase]
    ELSE IF reference \notin DOMAIN st THEN [store |-> st, err |-> ErrOrderNotFound]
    ELSE [store |-> [st EXCEPT ![reference] =
                        [@ EXCEPT !.Status = status,
                                  !.PSPReference = pspReference,
                                  !.UpdatedAt = now]],
          err |-> Nil]

(***************************************************************************)
(* services.OrderServiceImpl                                               *)
(***************************************************************************)
\* CreateOrder that does not return the repository's error.
SvcCreateOrderSwallow(st, productName, amount, currency, now, id, fault) ==
    LET n == NewOrder(productName, amount, currency, now, id) IN
    IF n.err # Nil
    THEN [store |-> st, order |-> NoOrder, err |-> n.err, calls |-> <<>>]
    ELSE LET c == RepoCreateOrder(st, n.order, now, fault) IN
         [store |-> c.store,
          order |-> c.order,
          err |-> Nil,
          calls |-> <<Call("repo.CreateOrder", c.err)>>]

SvcCreateOrder(st, productName, amount, currency, now, id, fault) ==
    LET n == NewOrder(productName, amount, currency, now, id) IN
    IF n.err # Nil
    THEN [store |-> st, order |-> NoOrder, err |-> n.err, calls |-> <<>>]
    ELSE LET c == RepoCreateOrder(st, n.order, now, fault) IN
         [store |-> c.store,
          order |-> IF c.err = Nil THEN c.order ELSE NoOrder,
          err |-> c.err,
          calls |-> <<Call("repo.CreateOrder", c.err)>>]

SvcGetOrderByReference(st, reference, fault) ==
    LET g == RepoGetOrderByReference(st, reference, fault) IN
    [order |-> g.order, err |-> g.err,
     calls |-> <<Call("repo.GetOrderByReference", g.err)>>]

\* The domain transition UpdateOrderStatus picks for a status string.
Transition(order, status, pspReference, now) ==
    IF status = OrderStatusAuthorized
    THEN [t |-> Authorize(order, pspReference, now), calls |-> <<"order.Authorize">>]
    ELSE IF status = OrderStatusFailed
    THEN [t |-> Fail(order, now), calls |-> <<"order.Fail">>]
    ELSE IF status = OrderStatusCancelled
    THEN [t |-> Cancel(order, now), calls |-> <<"order.Cancel">>]
    ELSE [t |-> [order |-> order, err |-> ErrInvalidOrderStatus], calls |-> <<>>]

\* UpdateOrderStatus that applies the transition and forgets to persist it.
SvcUpdateOrderStatusNoWrite(st, reference, status, pspReference, now, getFault, updFault) ==
    LET g == RepoGetOrderByReference(st, reference, getFault)
        gc == <<Call("repo.GetOrderByReference", g.err)>>
    IN
    IF g.err # Nil THEN [store |-> st, err |-> g.err, calls |-> gc]
    ELSE
    LET tr == Transition(g.order, status, pspReference, now)
        tc == gc \o [i \in 1..Len(tr.calls) |-> Call(tr.calls[i], tr.t.err)]
    IN [store |-> st, err |-> tr.t.err, calls |-> tc]

\* UpdateOrderStatus that writes the requested status although the
\* transition refused it.
SvcUpdateOrderStatusForce(st, reference, status, pspReference, now, getFault, updFault) ==
    LET g == RepoGetOrderByReference(st, reference, getFault)
        gc == <<Call("repo.GetOrderByReference", g.err)>>
    IN
    IF g.err # Nil THEN [store |-> st, err |-> g.err, calls |-> gc]
    ELSE
    LET tr == Transition(g.order, status, pspReference, now)
        tc == gc \o [i \in 1..Len(tr.calls) |-> Call(tr.calls[i], tr.t.err)]
        u == RepoUpdateOrderStatus(st, reference, status, pspReference, now, updFault)
    IN [store |-> u.store,
        err |-> IF tr.t.err # Nil THEN tr.t.err ELSE u.err,
        calls |-> tc \o <<Call("repo.UpdateOrderStatus", u.err)>>]

SvcUpdateOrderStatus(st, reference, status, pspReference, now, getFault, updFault) ==
    LET g == RepoGetOrderByReference(st, reference, getFault)
        gc == <<Call("repo.GetOrderByReference", g.err)>>
    IN
    IF g.err # Nil THEN [store |-> st, err |-> g.err, calls |-> gc]
    ELSE
    LET tr == Transition(g.order, status, pspReference, now)
        tc == gc \o [i \in 1..Len(tr.calls) |-> Call(tr.calls[i], tr.t.err)]
    IN
    IF tr.t.err # Nil THEN [store |-> st, err |-> tr.t.err, calls |-> tc]
    ELSE
    LET u == RepoUpdateOrderStatus(st, reference, tr.t.order.Status,
                                   tr.t.order.PSPReference, now, updFault)
    IN [store |-> u.store, err |-> u.err,
        calls |-> tc \o <<Call("repo.UpdateOrderStatus", u.err)>>]

(***************************************************************************)
(* services.PaymentServiceImpl                                             *)
(***************************************************************************)
\* The mapping with the gateway's code spelled the American way.
mapResultCodeToStatusSpelling(resultCode) ==
    IF resultCode = "Authorized" THEN OrderStatusAuthorized
    ELSE IF resultCode \in {"Refused", "Error"} THEN OrderStatusFailed
    ELSE IF resultCode = "Cancelled" THEN OrderStatusCancelled
    ELSE OrderStatusPending

\* The mapping that takes an unrecognized code for a failure.
mapResultCodeToStatusDefaultFailed(resultCode) ==
    IF resultCode = "Authorised" THEN OrderStatusAuthorized
    ELSE IF resultCode = "Cancelled" THEN OrderStatusCancelled
    ELSE OrderStatusFailed

\* The mapping that leaves "Error" out.
mapResultCodeToStatusNoError(resultCode) ==
    IF resultCode = "Authorised" THEN OrderStatusAuthorized
    ELSE IF resultCode = "Refused" THEN OrderStatusFailed
    ELSE IF resultCode = "Cancelled" THEN OrderStatusCancelled
    ELSE OrderStatusPending

mapResultCodeToStatus(resultCode) ==
    IF resultCode = "Authorised" THEN OrderStatusAuthorized
    ELSE IF resultCode \in {"Refused", "Error"} THEN OrderStatusFailed
    ELSE IF resultCode = "Cancelled" THEN OrderStatusCancelled
    ELSE OrderStatusPending

\* The result code and PSP reference of the last payment instead of the first.
ExtractPaymentLast(payments) ==
    IF Len(payments) > 0
    THEN [ResultCode |-> payments[Len(payments)].ResultCode,
          PSPReference |-> payments[Len(payments)].PSPReference]
    ELSE [ResultCode |-> "", PSPReference |-> ""]

\* The result code and PSP reference of the first payment, or empty strings.
ExtractPayment(payments) ==
    IF Len(payments) > 0
    THEN [ResultCode |-> payments[1].ResultCode, PSPReference |-> payments[1].PSPReference]
    ELSE [ResultCode |-> "", PSPReference |-> ""]

\* VerifyPayment that returns the error of UpdateOrderStatus to its caller.
VerifyAfterLookupStrict(st, now, sessionStatus, f) ==
    LET p == ExtractPayment(sessionStatus.Payments)
        orderStatus == mapResultCodeToStatus(p.ResultCode)
        g == SvcGetOrderByReference(st, sessionStatus.Reference, f = "get1")
    IN
    IF g.err # Nil
    THEN [store |-> st, err |-> g.err, result |-> NoResult, calls |-> g.calls]
    ELSE
    LET u == SvcUpdateOrderStatus(st, g.order.Reference, orderStatus,
                                  p.PSPReference, now, f = "get2", f = "upd")
    IN
    IF u.err # Nil
    THEN [store |-> u.store, err |-> u.err, result |-> NoResult,
          calls |-> g.calls \o u.calls]
    ELSE [store |-> u.store,
          err |-> Nil,
          result |-> [Order |-> [g.order EXCEPT !.Status = orderStatus,
                                                !.PSPReference = p.PSPReference],
                      ResultCode |-> p.ResultCode,
                      PSPReference |-> p.PSPReference,
                      Status |-> orderStatus],
          calls |-> g.calls \o u.calls]

\* VerifyPayment that updates the status before it looks at the error of its
\* fetch.
VerifyAfterLookupBlindWrite(st, now, sessionStatus, f) ==
    LET p == ExtractPayment(sessionStatus.Payments)
        orderStatus == mapResultCodeToStatus(p.ResultCode)
        g == SvcGetOrderByReference(st, sessionStatus.Reference, f = "get1")
        u == SvcUpdateOrderStatus(st, sessionStatus.Reference, orderStatus,
                                  p.PSPReference, now, f = "get2", f = "upd")
    IN
    IF g.err # Nil
    THEN [store |-> u.store, err |-> g.err, result |-> NoResult,
          calls |-> g.calls \o u.calls]
    ELSE [store |-> u.store,
          err |-> Nil,
          result |-> [Order |-> [g.order EXCEPT !.Status = orderStatus,
                                                !.PSPReference = p.PSPReference],
                      ResultCode |-> p.ResultCode,
                      PSPReference |-> p.PSPReference,
                      Status |-> orderStatus],
          calls |-> g.calls \o u.calls]

\* VerifyPayment once the gateway has answered with sessionStatus.
VerifyAfterLookup(st, now, sessionStatus, f) ==
    LET p == ExtractPayment(sessionStatus.Payments)
        orderStatus == mapResultCodeToStatus(p.ResultCode)
        g == SvcGetOrderByReference(st, sessionStatus.Reference, f = "get1")
    IN
    IF g.err # Nil
    THEN [store |-> st, err |-> g.err, result |-> NoResult, calls |-> g.calls]
    ELSE
    LET u == SvcUpdateOrderStatus(st, g.order.Reference, orderStatus,
                                  p.PSPReference, now, f = "get2", f = "upd")
    IN [store |-> u.store,
        err |-> Nil,
        result |-> [Order |-> [g.order EXCEPT !.Status = orderStatus,
                                              !.PSPReference = p.PSPReference],
                    ResultCode |-> p.ResultCode,
                    PSPReference |-> p.PSPReference,
                    Status |-> orderStatus],
        calls |-> g.calls \o u.calls]

\* VerifyPayment that goes on with the response after a failed lookup.
VerifyPaymentCallProceeds(st, now, gw, f) ==
    LET lookup == <<Call("adyen.GetSessionStatus", IF gw.err THEN ErrGateway ELSE Nil)>>
        v == VerifyAfterLookup(st, now, gw, f)
    IN [v EXCEPT !.calls = lookup \o @]

VerifyPaymentCall(st, now, gw, f) ==
    LET lookup == <<Call("adyen.GetSessionStatus", IF gw.err THEN ErrGateway ELSE Nil)>> IN
    IF gw.err
    THEN [store |-> st, err |-> ErrGateway, result |-> NoResult, calls |-> lookup]
    ELSE LET v == VerifyAfterLookup(st, now, gw, f) IN
         [v EXCEPT !.calls = lookup \o @]

\* Go's int64 arithmetic at the model's width: two's complement, wrapping.
IntModulus == 2 ^ IntBits
MaxInt == 2 ^ (IntBits - 1) - 1
MinInt == 0 - 2 ^ (IntBits - 1)

\* The value of a sum or difference of two int64 once it has wrapped.
Wrap(x) ==
    IF x > MaxInt THEN x - IntModulus
    ELSE IF x < MinInt THEN x + IntModulus
    ELSE x

GoAdd(a, b) == Wrap(a + b)
GoSub(a, b) == Wrap(a - b)

\* a * k for a constant k >= 0, by doubling, every step wrapping.
RECURSIVE GoMul(_, _)
GoMul(a, k) ==
    IF k = 0 THEN 0
    ELSE LET h == GoMul(a, k \div 2)
             d == GoAdd(h, h)
         IN IF k % 2 = 1 THEN GoAdd(d, a) ELSE d

Abs(x) == IF x < 0 THEN 0 - x ELSE x

\* a / b of Go: the quotient truncated toward zero (b # 0).
GoDiv(a, b) ==
    LET q == Abs(a) \div Abs(b) IN
    Wrap(IF (a < 0) = (b < 0) THEN q ELSE 0 - q)

\* calculateAmountExcludingTax: taxPercentage is in basis points.
calculateAmountExcludingTax(amountIncludingTax, taxPercentage) ==
    GoDiv(GoMul(amountIncludingTax, 10000), GoAdd(10000, taxPercentage))

calculateTaxAmount(amountIncludingTax, taxPercentage) ==
    GoSub(amountIncludingTax,
          calculateAmountExcludingTax(amountIncludingTax, taxPercentage))

NoRequest == [none |-> TRUE]

\* What adyenClient.CreateSession can return: an error, or a session.
GwSessionError == [err |-> TRUE, ID |-> "", SessionData |-> ""]
GwSessionOK == [err |-> FALSE, ID |-> "CS-1", SessionData |-> "data-1"]
GwSessions == {GwSessionError, GwSessionOK}

\* The inputs of a CreatePaymentSession call; the insert fault and the gateway
\* error are tried on the valid input.
CreateInputs ==
    [productName : ProductNames, amount : Amounts, currency : Currencies,
     returnURL : ReturnURLs, fault : {FALSE}, gw : {GwSessionOK}]
    \cup [productName : {"Widget"}, amount : {100}, currency : {USD},
          returnURL : ReturnURLs, fault : BOOLEAN, gw : GwSessions]

\* A second product, currency, return URL and gateway session.
EUR == <<"E", "U", "R">>
GwSessionOther == [err |-> FALSE, ID |-> "CS-2", SessionData |-> "data-2"]

\* The inputs of a CreatePaymentSession call when only sessions are created:
\* those of CreateInputs, and a second valid order whose return URL and
\* gateway session differ.
SessionInputs ==
    CreateInputs
    \cup [productName : {"Gadget"}, amount : {250}, currency : {EUR},
          returnURL : {"https://shop.example/done"}, fault : BOOLEAN,
          gw : {GwSessionError, GwSessionOther}]

\* The session request whose amount is the line item's amount before tax.
SessionRequestForNet(order, amount, currency, productName, returnURL) ==
    [Amount |-> [Currency |-> currency,
                 Value |-> calculateAmountExcludingTax(amount, 1000)],
     Reference |-> order.Reference,
     ReturnUrl |-> returnURL,
     LineItems |-> <<[Quantity |-> 1,
                      AmountExcludingTax |-> calculateAmountExcludingTax(amount, 1000),
                      TaxPercentage |-> 1000,
                      Description |-> productName,
                      TaxAmount |-> calculateTaxAmount(amount, 1000),
                      AmountIncludingTax |-> amount]>>]

SessionRequestFor(order, amount, currency, productName, returnURL) ==
    [Amount |-> [Currency |-> currency, Value |-> amount],
     Reference |-> order.Reference,
     ReturnUrl |-> returnURL,
     LineItems |-> <<[Quantity |-> 1,
                      AmountExcludingTax |-> calculateAmountExcludingTax(amount, 1000),
                      TaxPercentage |-> 1000,
                      Description |-> productName,
                      TaxAmount |-> calculateTaxAmount(amount, 1000),
                      AmountIncludingTax |-> amount]>>]

\* CreatePaymentSession that takes the order back when the gateway fails.
CreatePaymentSessionCallCompensating(st, now, id, productName, amount, currency, returnURL, fault, gw) ==
    LET c == SvcCreateOrder(st, productName, amount, currency, now, id, fault) IN
    IF c.err # Nil
    THEN [store |-> c.store, err |-> c.err, result |-> NoResult,
          request |-> NoRequest, calls |-> c.calls]
    ELSE
    LET req == SessionRequestFor(c.order, amount, currency, productName, returnURL)
        calls == c.calls \o <<Call("adyen.CreateSession", IF gw.err THEN ErrGateway ELSE Nil)>>
    IN
    IF gw.err
    THEN [store |-> st, err |-> ErrGateway, result |-> NoResult,
          request |-> req, calls |-> calls]
    ELSE [store |-> c.store, err |-> Nil,
          result |-> [SessionID |-> gw.ID, SessionData |-> gw.SessionData,
                      OrderRef |-> c.order.Reference],
          request |-> req, calls |-> calls]

CreatePaymentSessionCall(st, now, id, productName, amount, currency, returnURL, fault, gw) ==
    LET c == SvcCreateOrder(st, productName, amount, currency, now, id, fault) IN
    IF c.err # Nil
    THEN [store |-> c.store, err |-> c.err, result |-> NoResult,
          request |-> NoRequest, calls |-> c.calls]
    ELSE
    LET req == SessionRequestFor(c.order, amount, currency, productName, returnURL)
        calls == c.calls \o <<Call("adyen.CreateSession", IF gw.err THEN ErrGateway ELSE Nil)>>
    IN
    IF gw.err
    THEN [store |-> c.store, err |-> ErrGateway, result |-> NoResult,
          request |-> req, calls |-> calls]
    ELSE [store |-> c.store, err |-> Nil,
          result |-> [SessionID |-> gw.ID, SessionData |-> gw.SessionData,
                      OrderRef |-> c.order.Reference],
          request |-> req, calls |-> calls]

(***************************************************************************)
(* The state machine: sequential calls of the payment service              *)
(***************************************************************************)
NoCall ==
    [op |-> "none", in |-> NoResult, err |-> Nil, out |-> NoResult,
     request |-> NoRequest, calls |-> <<>>, pre |-> <<>>, repeat |-> FALSE]

\* The Order the entity actions start from: NewOrder("Widget", 100, "USD").
InitialOrder == NewOrder("Widget", 100, USD, 0, 0).order

NoTransition == [op |-> "none", arg |-> "", err |-> Nil, before |-> InitialOrder]

\* No http.Server has been made.
NoServer == [none |-> TRUE]

NoNewOrder == [op |-> "none", in |-> NoResult, err |-> Nil, out |-> NoOrder]

Init ==
    /\ store = <<>>
    /\ clock = 0
    /\ nextId = 0
    /\ last = NoCall
    /\ ord = InitialOrder
    /\ ordLast = NoTransition
    /\ made = <<>>
    /\ newLast = NoNewOrder
    /\ proc = <<>>
    /\ server = NoServer
    /\ shutdown = <<>>

Tick ==
    /\ clock < MaxClock
    /\ clock' = clock + 1
    /\ UNCHANGED <<store, nextId, last, ord, ordLast, made, newLast, proc, server, shutdown>>

CreatePaymentSessionWith(inputs) ==
    /\ nextId < MaxIds
    /\ \E in \in inputs :
         LET c == CreatePaymentSessionCall(store, clock, nextId, in.productName,
                                           in.amount, in.currency, in.returnURL,
                                           in.fault, in.gw)
         IN
         /\ store' = c.store
         /\ nextId' = IF validateOrderInput(in.productName, in.amount, in.currency) = Nil
                      THEN nextId + 1 ELSE nextId
         /\ last' = [op |-> "CreatePaymentSession", in |-> in, err |-> c.err,
                     out |-> c.result, request |-> c.request, calls |-> c.calls,
                     pre |-> store, repeat |-> FALSE]
    /\ UNCHANGED <<clock, ord, ordLast, made, newLast, proc, server, shutdown>>

CreatePaymentSession == CreatePaymentSessionWith(CreateInputs)

VerifyPayment ==
    /\ \E sessionID \in SessionIDs, sessionResult \in SessionResults,
          vi \in VerifyInputs :
         LET v == VerifyPaymentCall(store, clock, vi.gw, vi.fault)
             in == [sessionID |-> sessionID, sessionResult |-> sessionResult,
                    gw |-> vi.gw]
         IN
         /\ store' = v.store
         /\ last' = [op |-> "VerifyPayment", in |-> in, err |-> v.err,
                     out |-> v.result, request |-> NoRequest, calls |-> v.calls,
                     pre |-> store,
                     repeat |-> last.op = "VerifyPayment" /\ last.in = in]
    /\ UNCHANGED <<clock, nextId, ord, ordLast, made, newLast, proc, server, shutdown>>

Next == Tick \/ CreatePaymentSession \/ VerifyPayment

(***************************************************************************)
(* The state machine of one Order value: Authorize, Fail and Cancel called *)
(* on it in any order                                                      *)
(***************************************************************************)
OrderAuthorize ==
    /\ \E pspReference \in {"", "PSP-9", "PSP-1"} :
         LET r == Authorize(ord, pspReference, clock) IN
         /\ ord' = r.order
         /\ ordLast' = [op |-> "Authorize", arg |-> pspReference, err |-> r.err,
                        before |-> ord]
    /\ UNCHANGED <<store, clock, nextId, last, made, newLast, proc, server, shutdown>>

OrderFail ==
    /\ LET r == Fail(ord, clock) IN
         /\ ord' = r.order
         /\ ordLast' = [op |-> "Fail", arg |-> "", err |-> r.err, before |-> ord]
    /\ UNCHANGED <<store, clock, nextId, last, made, newLast, proc, server, shutdown>>

OrderCancel ==
    /\ LET r == Cancel(ord, clock) IN
         /\ ord' = r.order
         /\ ordLast' = [op |-> "Cancel", arg |-> "", err |-> r.err, before |-> ord]
    /\ UNCHANGED <<store, clock, nextId, last, made, newLast, proc, server, shutdown>>

NextOrder == Tick \/ OrderAuthorize \/ OrderFail \/ OrderCancel

SpecOrder == Init /\ [][NextOrder]_vars

Spec == Init /\ [][Next]_vars

(***************************************************************************)
(* The state machine of session creation alone, over more inputs           *)
(***************************************************************************)
CreateAnyPaymentSession == CreatePaymentSessionWith(SessionInputs)

NextSession == Tick \/ CreateAnyPaymentSession

SpecSession == Init /\ [][NextSession]_vars

(***************************************************************************)
(* The state machine of repeated NewOrder calls                            *)
(***************************************************************************)
\* The inputs of a NewOrder call: every combination of good and bad values,
\* and a second valid order.
NewOrderInputs ==
    [productName : {"", "Widget"}, amount : {-1, 0, 1, 100},
     currency : {<<>>, <<"U", "S">>, USD, <<"U", "S", "D", "X">>}]
    \cup {[productName |-> "Gadget", amount |-> 250, currency |-> EUR]}

OrderNew ==
    /\ nextId < MaxIds
    /\ \E in \in NewOrderInputs :
         LET n == NewOrder(in.productName, in.amount, in.currency, clock, nextId) IN
         /\ made' = IF n.err = Nil THEN Append(made, n.order) ELSE made
         /\ nextId' = IF n.err = Nil THEN nextId + 1 ELSE nextId
         /\ newLast' = [op |-> "NewOrder", in |-> in, err |-> n.err, out |-> n.order]
    /\ UNCHANGED <<store, clock, last, ord, ordLast, proc, server, shutdown>>

NextNewOrder == Tick \/ OrderNew

SpecNewOrder == Init /\ [][NextNewOrder]_vars

(***************************************************************************)
(* The pure functions of the payment service, called on their own          *)
(***************************************************************************)
\* The record of a call that is not a call of the payment service.
CallRecord(op, in, err, out, calls, pre) ==
    [op |-> op, in |-> in, err |-> err, out |-> out, request |-> NoRequest,
     calls |-> calls, pre |-> pre, repeat |-> FALSE]

\* Result codes: those of the gateway, other spellings, and none.
ResultCodes ==
    {"Authorised", "Refused", "Error", "Cancelled", "Pending", "Unknown",
     "Received", "Authorized", "authorised", "REFUSED", ""}

\* Amounts including tax: small ones, those of the tests, and those around
\* the largest amount whose product with 10000 is an int64.
TaxAmounts ==
    0..24 \cup {100, 120, 999, 10000}
          \cup {MaxInt \div 10000, MaxInt \div 10000 + 1, MaxInt \div 2, MaxInt}

\* Tax rates in basis points.
TaxRates == {0, 1, 500, 1000, 2000, 2500, 10000}

CallMapResultCode ==
    /\ \E resultCode \in ResultCodes :
         last' = CallRecord("mapResultCodeToStatus", resultCode, Nil,
                            mapResultCodeToStatus(resultCode), <<>>, <<>>)
    /\ UNCHANGED <<store, clock, nextId, ord, ordLast, made, newLast, proc, server, shutdown>>

CallCalculateTax ==
    /\ \E amount \in TaxAmounts, rate \in TaxRates :
         last' = CallRecord("calculateTax",
                            [amount |-> amount, rate |-> rate], Nil,
                            [excluding |-> calculateAmountExcludingTax(amount, rate),
                             tax |-> calculateTaxAmount(amount, rate)],
                            <<>>, <<>>)
    /\ UNCHANGED <<store, clock, nextId, ord, ordLast, made, newLast, proc, server, shutdown>>

NextPure == CallMapResultCode \/ CallCalculateTax

SpecPure == Init /\ [][NextPure]_vars

(***************************************************************************)
(* The order service called on its own                                     *)
(***************************************************************************)
\* The arguments of an UpdateOrderStatus call and the repository call that
\* fails at the database, if any; the faults are tried on the orders'
\* references with the statuses authorized and failed.
UpdateInputs ==
    [reference : OrderRefs \cup {UnknownRef},
     status : {OrderStatusPending, OrderStatusAuthorized, OrderStatusFailed,
               OrderStatusCancelled, "refunded", ""},
     pspReference : {"", "PSP-9"},
     fault : {"none"}]
    \cup [reference : OrderRefs,
          status : {OrderStatusAuthorized, OrderStatusFailed},
          pspReference : {"PSP-9"},
          fault : {"get", "upd"}]

ServiceCreateOrder ==
    /\ nextId < MaxIds
    /\ LET in == [productName |-> "Widget", amount |-> 100, currency |-> USD]
           c == SvcCreateOrder(store, in.productName, in.amount, in.currency,
                               clock, nextId, FALSE)
       IN
       /\ store' = c.store
       /\ nextId' = nextId + 1
       /\ last' = CallRecord("CreateOrder", in, c.err, c.order, c.calls, store)
    /\ UNCHANGED <<clock, ord, ordLast, made, newLast, proc, server, shutdown>>

ServiceUpdateOrderStatus ==
    /\ \E in \in UpdateInputs :
         LET u == SvcUpdateOrderStatus(store, in.reference, in.status,
                                       in.pspReference, clock,
                                       in.fault = "get", in.fault = "upd")
         IN
         /\ store' = u.store
         /\ last' = CallRecord("UpdateOrderStatus", in, u.err, NoResult, u.calls, store)
    /\ UNCHANGED <<clock, nextId, ord, ordLast, made, newLast, proc, server, shutdown>>

NextService == Tick \/ ServiceCreateOrder \/ ServiceUpdateOrderStatus

SpecService == Init /\ [][NextService]_vars

(***************************************************************************)
(* handlers.ConfirmationHandler                                            *)
(***************************************************************************)
\* r.URL.Query().Get(name): the value of the parameter, "" when it is absent.
QueryGet(query, name) == IF name \in DOMAIN query THEN query[name] ELSE ""

\* A response: status code, Location header and what the body shows.
Response(code, location, body) == [code |-> code, location |-> location, body |-> body]

\* fmt.Sprintf("/order/failed?reference=%s&reason=%s", reference, resultCode)
FailureURL(reference, resultCode) ==
    <<"/order/failed?reference=", reference, "&reason=", resultCode>>

\* The handler that sends only failed and cancelled results to the failure
\* page.
ServeHTTPCallFailedOnly(method, query, verify, tmpl) ==
    IF method # "GET"
    THEN [resp |-> Response(405, <<>>, "Method not allowed"), calls |-> <<>>]
    ELSE
    LET sessionID == QueryGet(query, "sessionId")
        sessionResult == QueryGet(query, "sessionResult")
    IN
    IF sessionID = ""
    THEN [resp |-> Response(400, <<>>, "Missing session ID"), calls |-> <<>>]
    ELSE
    LET calls == <<[call |-> "paymentService.VerifyPayment",
                    err |-> IF verify.err THEN ErrGateway ELSE Nil,
                    sessionID |-> sessionID, sessionResult |-> sessionResult]>>
    IN
    IF verify.err
    THEN [resp |-> Response(500, <<>>, "Failed to verify payment"), calls |-> calls]
    ELSE IF verify.Status \in {OrderStatusFailed, OrderStatusCancelled}
    THEN [resp |-> Response(303, FailureURL(verify.Order.Reference, verify.ResultCode),
                            "See Other"),
          calls |-> calls]
    ELSE IF tmpl = "ok"
    THEN [resp |-> Response(200, <<>>, [Order |-> verify.Order, Status |-> "Authorized"]),
          calls |-> calls]
    ELSE IF tmpl = "failsFirst"
    THEN [resp |-> Response(500, <<>>, "Failed to render page"), calls |-> calls]
    ELSE [resp |-> Response(200, <<>>, "Failed to render page"), calls |-> calls]

\* ServeHTTP for a request of this method and query, when VerifyPayment
\* answers verify and the template behaves as tmpl: it renders ("ok"), fails
\* before it has written anything ("failsFirst", and http.Error sets 500) or
\* fails after its first write ("failsLate": the status 200 is already sent).
ServeHTTPCall(method, query, verify, tmpl) ==
    IF method # "GET"
    THEN [resp |-> Response(405, <<>>, "Method not allowed"), calls |-> <<>>]
    ELSE
    LET sessionID == QueryGet(query, "sessionId")
        sessionResult == QueryGet(query, "sessionResult")
    IN
    IF sessionID = ""
    THEN [resp |-> Response(400, <<>>, "Missing session ID"), calls |-> <<>>]
    ELSE
    LET calls == <<[call |-> "paymentService.VerifyPayment",
                    err |-> IF verify.err THEN ErrGateway ELSE Nil,
                    sessionID |-> sessionID, sessionResult |-> sessionResult]>>
    IN
    IF verify.err
    THEN [resp |-> Response(500, <<>>, "Failed to verify payment"), calls |-> calls]
    ELSE IF verify.Status # OrderStatusAuthorized
    THEN [resp |-> Response(303, FailureURL(verify.Order.Reference, verify.ResultCode),
                            "See Other"),
          calls |-> calls]
    ELSE IF tmpl = "ok"
    THEN [resp |-> Response(200, <<>>, [Order |-> verify.Order, Status |-> "Authorized"]),
          calls |-> calls]
    ELSE IF tmpl = "failsFirst"
    THEN [resp |-> Response(500, <<>>, "Failed to render page"), calls |-> calls]
    ELSE [resp |-> Response(200, <<>>, "Failed to render page"), calls |-> calls]

Methods == {"GET", "POST", "PUT"}

\* Query strings: sessionId absent, empty or given; sessionResult absent or
\* given.
Queries ==
    {<<>>,
     [sessionId |-> ""],
     [sessionId |-> "CS-1"],
     [sessionResult |-> "R-1"],
     [sessionId |-> "", sessionResult |-> "R-1"],
     [sessionId |-> "CS-1", sessionResult |-> "R-1"]}

\* The result of VerifyPayment for an order and a result code.
VerifyAnswer(r, c, psp) ==
    [err |-> FALSE,
     Order |-> [Reference |-> r, Status |-> mapResultCodeToStatus(c),
                PSPReference |-> psp],
     ResultCode |-> c,
     PSPReference |-> psp,
     Status |-> mapResultCodeToStatus(c)]

\* What VerifyPayment can answer: an error, or a result.
VerifyAnswers ==
    {[err |-> TRUE]}
    \cup {VerifyAnswer(r, "Authorised", "PSP-9") : r \in OrderRefs}
    \cup {VerifyAnswer(r, c, "") :
            r \in OrderRefs, c \in {"Refused", "Error", "Cancelled", "Received", ""}}

TemplateOutcomes == {"ok", "failsFirst", "failsLate"}

ServeHTTP ==
    /\ \E method \in Methods, query \in Queries, verify \in VerifyAnswers,
          tmpl \in TemplateOutcomes :
         LET h == ServeHTTPCall(method, query, verify, tmpl) IN
         last' = CallRecord("ServeHTTP",
                            [method |-> method, query |-> query, verify |-> verify,
                             tmpl |-> tmpl],
                            Nil, h.resp, h.calls, <<>>)
    /\ UNCHANGED <<store, clock, nextId, ord, ordLast, made, newLast, proc, server, shutdown>>

NextHandler == ServeHTTP

SpecHandler == Init /\ [][NextHandler]_vars

(***************************************************************************)
(* Two VerifyPayment calls running concurrently. The steps of a call that  *)
(* touch the orders table are the payment service's fetch, the order       *)
(* service's fetch and the UPDATE; each is one statement of the database   *)
(* and the calls take their turns between them.                            *)
(***************************************************************************)
Procs == {1, 2}

\* The orders table after CreatePaymentSession("Widget", 100, "USD", url).
StoreWithOrder ==
    CreatePaymentSessionCall(<<>>, 0, 0, "Widget", 100, USD,
                             "https://shop.example/return", FALSE, GwSessionOK).store

\* The outcomes the gateway reports to the concurrent calls, all for the order
\* of StoreWithOrder.
RaceOutcomes ==
    [err : {FALSE}, Reference : {OrderRef(0)},
     Payments : {<<Attempt("Authorised", "PSP-9")>>, <<Attempt("Refused", "")>>,
                 <<Attempt("Cancelled", "")>>, <<Attempt("Received", "")>>}]

\* A call that has not started: pc is its position, gw the gateway's answer,
\* order the order the payment service fetched, read the order the order
\* service fetched, over the row as it was just before this call's UPDATE.
ProcStart ==
    [pc |-> "start", gw |-> GatewayError, order |-> NoOrder, read |-> NoOrder,
     err |-> Nil, wrote |-> FALSE, over |-> NoOrder, out |-> NoResult]

InitRace ==
    /\ store = StoreWithOrder
    /\ clock = 0
    /\ nextId = 1
    /\ last = NoCall
    /\ ord = InitialOrder
    /\ ordLast = NoTransition
    /\ made = <<>>
    /\ newLast = NoNewOrder
    /\ proc = [p \in Procs |-> ProcStart]
    /\ server = NoServer
    /\ shutdown = <<>>

\* The status and pspReference a call takes from the gateway's answer.
ProcStatus(q) == mapResultCodeToStatus(ExtractPayment(q.gw.Payments).ResultCode)
ProcPsp(q) == ExtractPayment(q.gw.Payments).PSPReference

\* adyenClient.GetSessionStatus, then orderService.GetOrderByReference.
RaceFetch(p) ==
    /\ proc[p].pc = "start"
    /\ \E gw \in RaceOutcomes :
         LET g == SvcGetOrderByReference(store, gw.Reference, FALSE) IN
         proc' = [proc EXCEPT ![p] =
                    [@ EXCEPT !.pc = IF g.err = Nil THEN "fetched" ELSE "done",
                              !.gw = gw, !.order = g.order, !.err = g.err]]
    /\ UNCHANGED <<store, clock, nextId, last, ord, ordLast, made, newLast, server, shutdown>>

\* UpdateOrderStatus: s.repo.GetOrderByReference.
RaceRefetch(p) ==
    /\ proc[p].pc = "fetched"
    /\ LET g == RepoGetOrderByReference(store, proc[p].order.Reference, FALSE) IN
         proc' = [proc EXCEPT ![p] =
                    [@ EXCEPT !.pc = IF g.err = Nil THEN "refetched" ELSE "returning",
                              !.read = g.order]]
    /\ UNCHANGED <<store, clock, nextId, last, ord, ordLast, made, newLast, server, shutdown>>

\* UpdateOrderStatus: the transition on the order it fetched and, if that
\* succeeds, s.repo.UpdateOrderStatus.
RaceUpdate(p) ==
    /\ proc[p].pc = "refetched"
    /\ LET q == proc[p]
           tr == Transition(q.read, ProcStatus(q), ProcPsp(q), clock).t
       IN
       IF tr.err # Nil
       THEN /\ proc' = [proc EXCEPT ![p] = [@ EXCEPT !.pc = "returning"]]
            /\ store' = store
       ELSE LET u == RepoUpdateOrderStatus(store, q.order.Reference, tr.order.Status,
                                           tr.order.PSPReference, clock, FALSE)
            IN
            /\ store' = u.store
            /\ proc' = [proc EXCEPT ![p] =
                          [@ EXCEPT !.pc = "returning",
                                    !.wrote = (u.err = Nil),
                                    !.over = RepoGetOrderByReference(
                                                store, q.order.Reference, FALSE).order]]
    /\ UNCHANGED <<clock, nextId, last, ord, ordLast, made, newLast, server, shutdown>>

\* VerifyPayment: the error of UpdateOrderStatus is logged, the fetched order
\* takes the mapped status and the outcome's pspReference, and is returned.
RaceReturn(p) ==
    /\ proc[p].pc = "returning"
    /\ LET q == proc[p] IN
         proc' = [proc EXCEPT ![p] =
                    [@ EXCEPT !.pc = "done",
                              !.out = [Order |-> [q.order EXCEPT
                                                     !.Status = ProcStatus(q),
                                                     !.PSPReference = ProcPsp(q)],
                                       ResultCode |-> ExtractPayment(q.gw.Payments).ResultCode,
                                       PSPReference |-> ProcPsp(q),
                                       Status |-> ProcStatus(q)]]]
    /\ UNCHANGED <<store, clock, nextId, last, ord, ordLast, made, newLast, server, shutdown>>

NextRace ==
    \/ Tick
    \/ \E p \in Procs : RaceFetch(p) \/ RaceRefetch(p) \/ RaceUpdate(p) \/ RaceReturn(p)

SpecRace == InitRace /\ [][NextRace]_vars

(***************************************************************************)
(* repository.OrderRepository called directly: goroutines that each insert *)
(* one order, and UpdateOrderStatus calls on a table that holds two        *)
(* orders. Every call is one SQL statement and the database runs the       *)
(* statements one at a time.                                               *)
(***************************************************************************)
Goroutines == {1, 2, 3}

\* The references the goroutines give their orders.
CreateRefs == {OrderRef(n) : n \in 0..2}

\* The order goroutine p inserts: its own id and amount, status Pending.
OrderOf(p, reference, now) ==
    [NewOrder("Widget", 1000 + p, USD, now, p).order EXCEPT !.Reference = reference]

InitRepo ==
    /\ store = <<>>
    /\ clock = 0
    /\ nextId = 0
    /\ last = NoCall
    /\ ord = InitialOrder
    /\ ordLast = NoTransition
    /\ made = <<>>
    /\ newLast = NoNewOrder
    /\ proc = [p \in Goroutines |-> ProcStart]
    /\ server = NoServer
    /\ shutdown = <<>>

\* go func(idx int): the goroutine builds its order.
RepoGo(p) ==
    /\ proc[p].pc = "start"
    /\ \E reference \in CreateRefs :
         proc' = [proc EXCEPT ![p] =
                    [@ EXCEPT !.pc = "insert",
                              !.order = OrderOf(p, reference, clock)]]
    /\ UNCHANGED <<store, clock, nextId, last, ord, ordLast, made, newLast, server, shutdown>>

\* repo.CreateOrder(order): the INSERT; over is the row stored under the
\* order's reference just before it.
RepoInsert(p) ==
    /\ proc[p].pc = "insert"
    /\ LET c == RepoCreateOrder(store, proc[p].order, clock, FALSE) IN
         /\ store' = c.store
         /\ proc' = [proc EXCEPT ![p] =
                       [@ EXCEPT !.pc = "done",
                                 !.order = c.order,
                                 !.err = c.err,
                                 !.wrote = (c.err = Nil),
                                 !.over = RepoGetOrderByReference(
                                             store, proc[p].order.Reference, FALSE).order]]
    /\ UNCHANGED <<clock, nextId, last, ord, ordLast, made, newLast, server, shutdown>>

NextRepo ==
    \/ Tick
    \/ \E p \in Goroutines : RepoGo(p) \/ RepoInsert(p)

SpecRepo == InitRepo /\ [][NextRepo]_vars

\* The orders table after repo.CreateOrder of two orders.
StoreWithTwoOrders ==
    RepoCreateOrder(RepoCreateOrder(<<>>, OrderOf(1, OrderRef(0), 0), 0, FALSE).store,
                    OrderOf(2, OrderRef(1), 0), 0, FALSE).store

InitRepoUpdate ==
    /\ store = StoreWithTwoOrders
    /\ clock = 0
    /\ nextId = 0
    /\ last = NoCall
    /\ ord = InitialOrder
    /\ ordLast = NoTransition
    /\ made = <<>>
    /\ newLast = NoNewOrder
    /\ proc = <<>>
    /\ server = NoServer
    /\ shutdown = <<>>

\* The arguments of repo.UpdateOrderStatus: a reference that is stored or
\* not, any status string, a pspReference or none; fault is a failing Exec.
RepoUpdateInputs ==
    [reference : {OrderRef(0), UnknownRef},
     status : {OrderStatusPending, OrderStatusAuthorized, OrderStatusFailed,
               OrderStatusCancelled, "refunded"},
     pspReference : {"", "PSP-9"},
     fault : {FALSE}]
    \cup [reference : {OrderRef(0)}, status : {OrderStatusFailed},
          pspReference : {"PSP-9"}, fault : {TRUE}]

RepoUpdate ==
    /\ \E in \in RepoUpdateInputs :
         LET u == RepoUpdateOrderStatus(store, in.reference, in.status,
                                        in.pspReference, clock, in.fault)
         IN
         /\ store' = u.store
         /\ last' = CallRecord("repo.UpdateOrderStatus", in, u.err, NoResult,
                               <<>>, store)
    /\ UNCHANGED <<clock, nextId, ord, ordLast, made, newLast, proc, server, shutdown>>

NextRepoUpdate == Tick \/ RepoUpdate

SpecRepoUpdate == InitRepoUpdate /\ [][NextRepoUpdate]_vars

(***************************************************************************)
(* cli.WaitForShutdown on a server that StartServer started: the signal    *)
(* channel, the http.Server (its listener, its Serve goroutine, its        *)
(* connections) and the steps of WaitForShutdownWithTimeout, with          *)
(* requests arriving and handlers returning in between.                    *)
(***************************************************************************)
Signals == {"SIGTERM", "SIGINT"}
Conns == {"conn-1", "conn-2"}
Listeners == {"tcp", "errorListener"}

DeadlineExceeded == "context deadline exceeded"
ErrListenerClose == "listener close error"
ErrNotGraceful == "could not stop server gracefully"

\* The goroutine that calls WaitForShutdown.
Waiter == "WaitForShutdown"

\* The variables the shutdown steps leave alone.
orderVars == <<store, clock, nextId, last, ord, ordLast, made, newLast>>

\* StartServer: Serve is running on the listener; once is what the
\* listener's Close returned when the server closed it ("open": not yet).
StartedServer(listener) ==
    [listener |-> listener, tracked |-> TRUE, lnClosed |-> FALSE, once |-> "open",
     serving |-> TRUE, inShutdown |-> FALSE, conns |-> [c \in Conns |-> "none"]]

\* The server after listener.Close() and server.Close().
ClosedServer ==
    [listener |-> "tcp", tracked |-> FALSE, lnClosed |-> TRUE, once |-> "open",
     serving |-> FALSE, inShutdown |-> TRUE, conns |-> [c \in Conns |-> "none"]]

\* WaitForShutdown before its receive: sig is the signal it received, ctxDone
\* the state of the timeout context, lnerr and err what Shutdown's listener
\* close and Shutdown returned, closeErr what Close returned, out the result.
WaitStart ==
    [pc |-> "receive", sig |-> "", ctxDone |-> FALSE, lnerr |-> Nil, err |-> Nil,
     closeErr |-> Nil, out |-> "not returned"]

InitShutdown ==
    /\ store = <<>>
    /\ clock = 0
    /\ nextId = 0
    /\ last = NoCall
    /\ ord = InitialOrder
    /\ ordLast = NoTransition
    /\ made = <<>>
    /\ newLast = NoNewOrder
    /\ proc = (Waiter :> WaitStart)
    /\ server \in {StartedServer(l) : l \in Listeners} \cup {ClosedServer}
    /\ shutdown = <<>>

\* http.Server.closeListenersLocked: Close on every tracked listener, which
\* Serve wrapped in a onceCloseListener (a second Close returns what the
\* first returned); the error of the first that fails.
closeListenersLocked(srv) ==
    IF ~srv.tracked THEN [server |-> srv, err |-> Nil]
    ELSE IF srv.once # "open" THEN [server |-> srv, err |-> srv.once]
    ELSE LET e == IF srv.listener = "errorListener" \/ srv.lnClosed
                  THEN ErrListenerClose ELSE Nil
         IN [server |-> [srv EXCEPT !.lnClosed = TRUE, !.once = e], err |-> e]

\* WaitForShutdownWithTimeout after server.Shutdown(ctx) that returns its
\* error without closing the server.
AfterShutdownReturnsError(w, err) ==
    IF err # Nil
    THEN [w EXCEPT !.pc = "done", !.err = err, !.out = err]
    ELSE [w EXCEPT !.pc = "done", !.err = Nil, !.out = Nil]

\* WaitForShutdownWithTimeout after server.Shutdown(ctx) returned err.
AfterShutdown(w, err) ==
    IF err # Nil
    THEN [w EXCEPT !.pc = "Close", !.err = err]
    ELSE [w EXCEPT !.pc = "done", !.err = Nil, !.out = Nil]

\* WaitForShutdownWithTimeout after server.Close() returned err.
AfterClose(w, err) ==
    [w EXCEPT !.pc = "done", !.closeErr = err,
              !.out = IF err # Nil THEN ErrNotGraceful ELSE Nil]

\* A signal arrives; signal.Notify and the tests send to a channel of
\* capacity 1.
Notify ==
    /\ Len(shutdown) < 1
    /\ \E sig \in Signals : shutdown' = Append(shutdown, sig)
    /\ UNCHANGED <<orderVars, proc, server>>

\* The Serve goroutine accepts a connection and its handler starts.
Accept(c) ==
    /\ server.serving /\ ~server.lnClosed /\ ~server.inShutdown
    /\ server.conns[c] = "none"
    /\ server' = [server EXCEPT !.conns[c] = "active"]
    /\ UNCHANGED <<orderVars, proc, shutdown>>

\* The handler of a connection returns; the connection is idle.
HandlerReturns(c) ==
    /\ server.conns[c] = "active"
    /\ server' = [server EXCEPT !.conns[c] = "idle"]
    /\ UNCHANGED <<orderVars, proc, shutdown>>

\* listener.Close() from outside the server.
ListenerClose ==
    /\ server.serving /\ ~server.lnClosed
    /\ server' = [server EXCEPT !.lnClosed = TRUE]
    /\ UNCHANGED <<orderVars, proc, shutdown>>

\* Serve: Accept fails on the closed listener, Serve returns and its
\* deferred trackListener(&l, false) runs.
ServeReturns ==
    /\ server.serving /\ server.lnClosed
    /\ server' = [server EXCEPT !.serving = FALSE, !.tracked = FALSE]
    /\ UNCHANGED <<orderVars, proc, shutdown>>

\* sig := <-shutdown, then context.WithTimeout.
Receive ==
    /\ proc[Waiter].pc = "receive"
    /\ shutdown # <<>>
    /\ proc' = [proc EXCEPT ![Waiter] =
                  [@ EXCEPT !.pc = "Shutdown", !.sig = Head(shutdown)]]
    /\ shutdown' = Tail(shutdown)
    /\ UNCHANGED <<orderVars, server>>

\* The timeout of the context passes.
Deadline ==
    /\ proc[Waiter].pc \in {"Shutdown", "listenerGroup", "poll", "select"}
    /\ ~proc[Waiter].ctxDone
    /\ proc' = [proc EXCEPT ![Waiter] = [@ EXCEPT !.ctxDone = TRUE]]
    /\ UNCHANGED <<orderVars, server, shutdown>>

\* server.Shutdown(ctx): inShutdown is set and the listeners are closed.
ShutdownStart ==
    /\ proc[Waiter].pc = "Shutdown"
    /\ LET c == closeListenersLocked([server EXCEPT !.inShutdown = TRUE]) IN
         /\ server' = c.server
         /\ proc' = [proc EXCEPT ![Waiter] =
                       [@ EXCEPT !.pc = "listenerGroup", !.lnerr = c.err]]
    /\ UNCHANGED <<orderVars, shutdown>>

\* server.Shutdown(ctx): srv.listenerGroup.Wait().
ShutdownListenersDone ==
    /\ proc[Waiter].pc = "listenerGroup"
    /\ ~server.serving
    /\ proc' = [proc EXCEPT ![Waiter] = [@ EXCEPT !.pc = "poll"]]
    /\ UNCHANGED <<orderVars, server, shutdown>>

\* server.Shutdown(ctx): closeIdleConns closes the idle connections; with
\* none left active Shutdown returns the listeners' error.
ShutdownPoll ==
    /\ proc[Waiter].pc = "poll"
    /\ LET conns == [c \in Conns |-> IF server.conns[c] = "idle" THEN "closed"
                                     ELSE server.conns[c]]
           quiescent == \A c \in Conns : conns[c] # "active"
       IN
       /\ server' = [server EXCEPT !.conns = conns]
       /\ proc' = [proc EXCEPT ![Waiter] =
                     IF quiescent THEN AfterShutdown(@, @.lnerr)
                     ELSE [@ EXCEPT !.pc = "select"]]
    /\ UNCHANGED <<orderVars, shutdown>>

\* server.Shutdown(ctx): case <-timer.C.
ShutdownSelectTimer ==
    /\ proc[Waiter].pc = "select"
    /\ proc' = [proc EXCEPT ![Waiter] = [@ EXCEPT !.pc = "poll"]]
    /\ UNCHANGED <<orderVars, server, shutdown>>

\* server.Shutdown(ctx): case <-ctx.Done(): return ctx.Err().
ShutdownSelectDone ==
    /\ proc[Waiter].pc = "select"
    /\ proc[Waiter].ctxDone
    /\ proc' = [proc EXCEPT ![Waiter] = AfterShutdown(@, DeadlineExceeded)]
    /\ UNCHANGED <<orderVars, server, shutdown>>

\* server.Close(): the listeners still tracked are closed.
CloseStart ==
    /\ proc[Waiter].pc = "Close"
    /\ LET c == closeListenersLocked([server EXCEPT !.inShutdown = TRUE]) IN
         /\ server' = c.server
         /\ proc' = [proc EXCEPT ![Waiter] =
                       [@ EXCEPT !.pc = "closeWait", !.closeErr = c.err]]
    /\ UNCHANGED <<orderVars, shutdown>>

\* server.Close(): srv.listenerGroup.Wait(), then every connection is
\* closed, active or not, and the listeners' error is returned.
CloseFinish ==
    /\ proc[Waiter].pc = "closeWait"
    /\ ~server.serving
    /\ server' = [server EXCEPT !.conns =
                    [c \in Conns |-> IF server.conns[c] \in {"active", "idle"}
                                     THEN "forced" ELSE server.conns[c]]]
    /\ proc' = [proc EXCEPT ![Waiter] = AfterClose(@, @.closeErr)]
    /\ UNCHANGED <<orderVars, shutdown>>

\* The steps of WaitForShutdown that are ready to run whenever it is
\* scheduled.
WaitProgress ==
    \/ Receive
    \/ ShutdownStart
    \/ ShutdownListenersDone
    \/ ShutdownPoll
    \/ ShutdownSelectTimer
    \/ CloseStart
    \/ CloseFinish

NextShutdown ==
    \/ Notify
    \/ \E c \in Conns : Accept(c) \/ HandlerReturns(c)
    \/ ListenerClose
    \/ ServeReturns
    \/ Deadline
    \/ ShutdownSelectDone
    \/ WaitProgress

\* The goroutines are scheduled, the context's timer fires, and a select
\* whose ctx.Done() case is ready again and again takes it in the end. No
\* signal has to arrive and no handler has to return.
SpecShutdown ==
    /\ InitShutdown
    /\ [][NextShutdown]_vars
    /\ WF_vars(WaitProgress)
    /\ WF_vars(ServeReturns)
    /\ WF_vars(Deadline)
    /\ SF_vars(ShutdownSelectDone)

(***************************************************************************)
(* Properties                                                              *)
(***************************************************************************)
\* The rows of the orders table as GetOrderByReference reads them.
Persisted(st, reference) == RepoGetOrderByReference(st, reference, FALSE).order

\* The status changes the state machine of section 4.1 allows.
AllowedStatusChanges ==
    {<<OrderStatusPending, OrderStatusAuthorized>>,
     <<OrderStatusPending, OrderStatusFailed>>,
     <<OrderStatusPending, OrderStatusCancelled>>,
     <<OrderStatusFailed, OrderStatusCancelled>>}

IsVerify(l) == l.op = "VerifyPayment"

\* The reference, result code and PSP reference the gateway reported to a
\* VerifyPayment call.
GwRef(l) == l.in.gw.Reference
GwCode(l) == IF l.in.gw.Payments = <<>> THEN "" ELSE l.in.gw.Payments[1].ResultCode
GwPsp(l) == IF l.in.gw.Payments = <<>> THEN "" ELSE l.in.gw.Payments[1].PSPReference

\* No store operation of the call failed at the database.
NoStoreFault(l) == \A i \in 1..Len(l.calls) : l.calls[i].err # ErrDatabase

\* The call made this collaborator call.
Called(l, name) == \E i \in 1..Len(l.calls) : l.calls[i].call = name

\* C1: over any history of CreatePaymentSession and VerifyPayment calls, with
\* any result codes and any store or gateway failures, no row leaves the orders
\* table, a row's status changes only along Pending->Authorized,
\* Pending->Failed, Pending->Cancelled, Failed->Cancelled, and a row that is
\* Authorized keeps its status and its pspReference for ever.
C1_PersistedTransitions ==
    [][\A r \in DOMAIN store :
          /\ r \in DOMAIN store'
          /\ \/ store'[r].Status = store[r].Status
             \/ <<store[r].Status, store'[r].Status>> \in AllowedStatusChanges
          /\ store[r].Status = OrderStatusAuthorized
                => /\ store'[r].Status = OrderStatusAuthorized
                   /\ store'[r].PSPReference = store[r].PSPReference]_vars

\* C1 witness: a Refused outcome was reconciled, without any fault, against an
\* order already persisted as Authorized, and the row is still Authorized.
C1_Witness ==
    /\ IsVerify(last) /\ last.err = Nil /\ NoStoreFault(last)
    /\ GwCode(last) = "Refused"
    /\ GwRef(last) \in DOMAIN last.pre
    /\ last.pre[GwRef(last)].Status = OrderStatusAuthorized
    /\ store[GwRef(last)].Status = OrderStatusAuthorized

\* C2: on one Order value, every call of Authorize, Fail or Cancel either
\* leaves the status as it is or changes it along Pending->Authorized,
\* Pending->Failed, Pending->Cancelled, Failed->Cancelled: nothing leaves
\* Authorized, Cancelled never becomes Failed, nothing becomes Pending.
C2_EntityTransitions ==
    [][\/ ord'.Status = ord.Status
       \/ <<ord.Status, ord'.Status>> \in AllowedStatusChanges]_vars

\* C2 witness: Cancel has been applied to a Failed order and succeeded.
C2_Witness ==
    /\ ordLast.op = "Cancel" /\ ordLast.err = Nil
    /\ ordLast.before.Status = OrderStatusFailed
    /\ ord.Status = OrderStatusCancelled

\* The repository call of the log failed (with any error).
RepoCalls == {"repo.CreateOrder", "repo.GetOrderByReference", "repo.UpdateOrderStatus"}
TransitionCalls == {"order.Authorize", "order.Fail", "order.Cancel"}

\* The payment service's own fetch of the order succeeded: the second entry
\* of the log, after the gateway lookup.
FetchedOK(l) ==
    /\ Len(l.calls) >= 2
    /\ l.calls[2] = Call("repo.GetOrderByReference", Nil)

\* The status and pspReference columns of a row.
StatusAndPsp(row) == <<row.Status, row.PSPReference>>

\* C3: when VerifyPayment is called twice in a row with the same session and
\* the same gateway outcome for an order that exists, and no store operation
\* fails, both calls return without error and with the same mapped status, and
\* the persisted status and pspReference after the second call are those after
\* the first; two Refused reconciliations of a Pending order leave it Failed.
C3_Idempotent ==
    [][(/\ IsVerify(last) /\ IsVerify(last')
        /\ last'.in = last.in
        /\ ~last.in.gw.err
        /\ GwRef(last) \in DOMAIN last.pre
        /\ NoStoreFault(last) /\ NoStoreFault(last'))
       => /\ last.err = Nil /\ last'.err = Nil
          /\ last'.out.Status = last.out.Status
          /\ last'.out.Status = mapResultCodeToStatus(GwCode(last))
          /\ StatusAndPsp(store'[GwRef(last)]) = StatusAndPsp(store[GwRef(last)])
          /\ (GwCode(last) = "Refused"
              /\ last.pre[GwRef(last)].Status = OrderStatusPending)
                => store'[GwRef(last)].Status = OrderStatusFailed]_vars

\* C3 witness: a second Refused reconciliation in a row, on the order the
\* first one left Failed, returned without error and the order is Failed.
C3_Witness ==
    /\ IsVerify(last) /\ last.repeat /\ last.err = Nil /\ NoStoreFault(last)
    /\ GwCode(last) = "Refused"
    /\ last.pre[GwRef(last)].Status = OrderStatusFailed
    /\ store[GwRef(last)].Status = OrderStatusFailed
    /\ last.out.Status = OrderStatusFailed

\* C4: if no store operation fails, after every VerifyPayment that returns
\* without error the returned order's status and pspReference, and the returned
\* Status, equal what the store holds for that reference.
C4_ReturnedEqualsPersisted ==
    (IsVerify(last) /\ last.err = Nil /\ NoStoreFault(last))
    => /\ last.out.Order.Status = Persisted(store, GwRef(last)).Status
       /\ last.out.Order.PSPReference = Persisted(store, GwRef(last)).PSPReference
       /\ last.out.Status = Persisted(store, GwRef(last)).Status

\* C5: for an order still Pending, an outcome with its reference, resultCode
\* "Authorised" and a non-empty pspReference P, reconciled with no store
\* failure, returns without error an order Authorized with pspReference P,
\* resultCode "Authorised" and status authorized, and the store then holds
\* Authorized and P for the reference.
C5_AuthorisedScenario ==
    (/\ IsVerify(last) /\ ~last.in.gw.err /\ NoStoreFault(last)
     /\ GwCode(last) = "Authorised" /\ GwPsp(last) # ""
     /\ GwRef(last) \in DOMAIN last.pre
     /\ last.pre[GwRef(last)].Status = OrderStatusPending)
    => /\ last.err = Nil
       /\ last.out.Order.Reference = GwRef(last)
       /\ last.out.Order.Status = OrderStatusAuthorized
       /\ last.out.Order.PSPReference = GwPsp(last)
       /\ last.out.ResultCode = "Authorised"
       /\ last.out.PSPReference = GwPsp(last)
       /\ last.out.Status = OrderStatusAuthorized
       /\ store[GwRef(last)].Status = OrderStatusAuthorized
       /\ store[GwRef(last)].PSPReference = GwPsp(last)

\* C5 witness: the order created by CreatePaymentSession was reconciled with
\* Authorised and PSP-9, and the store holds Authorized and PSP-9.
C5_Witness ==
    /\ IsVerify(last) /\ last.err = Nil
    /\ GwCode(last) = "Authorised" /\ GwPsp(last) = "PSP-9"
    /\ last.pre[GwRef(last)].Status = OrderStatusPending
    /\ last.out.Order.Status = OrderStatusAuthorized
    /\ store[GwRef(last)].Status = OrderStatusAuthorized
    /\ store[GwRef(last)].PSPReference = "PSP-9"

\* C6: for an order still Pending, an outcome with its reference and
\* resultCode "Refused", reconciled with no store failure, returns status
\* Failed without error, and the store then holds Failed for the reference.
C6_RefusedScenario ==
    (/\ IsVerify(last) /\ ~last.in.gw.err /\ NoStoreFault(last)
     /\ GwCode(last) = "Refused"
     /\ GwRef(last) \in DOMAIN last.pre
     /\ last.pre[GwRef(last)].Status = OrderStatusPending)
    => /\ last.err = Nil
       /\ last.out.Status = OrderStatusFailed
       /\ store[GwRef(last)].Status = OrderStatusFailed

\* C6 witness: a Pending order was reconciled with Refused and is Failed.
C6_Witness ==
    /\ IsVerify(last) /\ last.err = Nil
    /\ GwCode(last) = "Refused"
    /\ last.pre[GwRef(last)].Status = OrderStatusPending
    /\ last.out.Status = OrderStatusFailed
    /\ store[GwRef(last)].Status = OrderStatusFailed

RecognizedCodes == {"Authorised", "Refused", "Error", "Cancelled"}

\* C7: when the outcome's result code is none of Authorised, Refused, Error,
\* Cancelled (the empty code included), VerifyPayment calls no transition of
\* the state machine and writes nothing: the orders table is as before the
\* call; once the order was fetched the call returns without error and
\* reports status Pending.
C7_UnrecognizedCode ==
    (IsVerify(last) /\ ~last.in.gw.err /\ GwCode(last) \notin RecognizedCodes)
    => /\ \A i \in 1..Len(last.calls) :
             last.calls[i].call \notin TransitionCalls \cup {"repo.UpdateOrderStatus"}
       /\ store = last.pre
       /\ last.err = Nil => last.out.Status = OrderStatusPending
       /\ FetchedOK(last) => last.err = Nil

\* C7 witness: an unrecognized code was reconciled against an order that is
\* persisted as Failed; the call reported Pending and the row is as it was.
C7_Witness ==
    /\ IsVerify(last) /\ last.err = Nil
    /\ GwCode(last) = "Received"
    /\ last.pre[GwRef(last)].Status = OrderStatusFailed
    /\ last.out.Status = OrderStatusPending
    /\ store[GwRef(last)] = last.pre[GwRef(last)]

\* The call's status write failed: after the payment service fetched the
\* order, a repository call of UpdateOrderStatus failed at the database.
StatusWriteFailed(l) ==
    /\ FetchedOK(l)
    /\ \E i \in 3..Len(l.calls) :
          l.calls[i].call \in RepoCalls /\ l.calls[i].err = ErrDatabase

C9_GatewayFailure ==
    (IsVerify(last) /\ last.in.gw.err)
    => /\ last.err # Nil
       /\ last.out = NoResult
       /\ last.calls = <<Call("adyen.GetSessionStatus", ErrGateway)>>
       /\ store = last.pre

\* C9 witness: the lookup failed while an order was in the store.
C9_Witness ==
    /\ IsVerify(last) /\ last.in.gw.err
    /\ last.err = ErrGateway
    /\ DOMAIN store # {}

\* C10: if the store has no order for the outcome's reference, VerifyPayment
\* returns an error and no result, calls no transition and no status write,
\* and the orders table is as before the call: no order is created.
C10_OrderNotFound ==
    (IsVerify(last) /\ ~last.in.gw.err /\ GwRef(last) \notin DOMAIN last.pre)
    => /\ last.err # Nil
       /\ last.out = NoResult
       /\ \A i \in 1..Len(last.calls) :
             last.calls[i].call \notin TransitionCalls \cup {"repo.UpdateOrderStatus"}
       /\ store = last.pre
       /\ GwRef(last) \notin DOMAIN store

\* C10 witness: an Authorised outcome named a reference the store does not
\* have, while it has another order; the call failed with order-not-found.
C10_Witness ==
    /\ IsVerify(last) /\ ~last.in.gw.err
    /\ GwCode(last) = "Authorised"
    /\ GwRef(last) \notin DOMAIN last.pre
    /\ DOMAIN store # {}
    /\ last.err = ErrOrderNotFound

IsCreate(l) == l.op = "CreatePaymentSession"

\* The references the last call added to the orders table.
AddedRefs == DOMAIN store \ DOMAIN last.pre

\* The rows the orders table held before the last call are as they were.
OldRowsKept == \A r \in DOMAIN last.pre : r \in DOMAIN store /\ store[r] = last.pre[r]

\* C11: a CreatePaymentSession(productName, amount, currency, returnURL) that
\* returns without error has added exactly one row to the orders table, Pending
\* and with the given productName, amount and currency, and changed no other;
\* the request sent to the gateway carries that row's reference, the given
\* amount, currency and return URL; the result carries the gateway's session
\* id and session data and the same reference.
C11_SuccessfulSession ==
    (IsCreate(last) /\ last.err = Nil)
    => /\ OldRowsKept
       /\ Cardinality(AddedRefs) = 1
       /\ \A r \in AddedRefs :
            /\ Persisted(store, r).Reference = r
            /\ Persisted(store, r).Status = OrderStatusPending
            /\ Persisted(store, r).ProductName = last.in.productName
            /\ Persisted(store, r).Amount = last.in.amount
            /\ Persisted(store, r).Currency = last.in.currency
            /\ last.request.Reference = r
            /\ last.request.Amount.Value = last.in.amount
            /\ last.request.Amount.Currency = last.in.currency
            /\ last.request.ReturnUrl = last.in.returnURL
            /\ last.out.OrderRef = r
            /\ last.out.SessionID = last.in.gw.ID
            /\ last.out.SessionData = last.in.gw.SessionData

\* C11 witness: a second order, the Gadget for 250 EUR, was created next to
\* the first and the gateway's session CS-2 was returned for it.
C11_Witness ==
    /\ IsCreate(last) /\ last.err = Nil
    /\ last.in.productName = "Gadget"
    /\ DOMAIN last.pre # {}
    /\ last.out.SessionID = "CS-2"
    /\ last.request.Amount.Value = 250
    /\ Cardinality(DOMAIN store) = 2

\* The outcome that authorises the order of a reference.
AuthorisedFor(r) ==
    [err |-> FALSE, Reference |-> r, Payments |-> <<Attempt("Authorised", "PSP-9")>>]

\* C12: if the gateway's session creation fails, CreatePaymentSession returns
\* an error and no result, and the order it persisted is in the orders table,
\* Pending, with every other row as it was; that order can be reconciled: a
\* VerifyPayment of an Authorised outcome for it returns without error and
\* leaves it Authorized.
C12_GatewayFailureKeepsOrder ==
    (IsCreate(last) /\ Called(last, "adyen.CreateSession") /\ last.in.gw.err)
    => /\ last.err # Nil
       /\ last.out = NoResult
       /\ OldRowsKept
       /\ Cardinality(AddedRefs) = 1
       /\ \A r \in AddedRefs :
            /\ r = last.request.Reference
            /\ Persisted(store, r).Status = OrderStatusPending
            /\ LET v == VerifyPaymentCall(store, clock, AuthorisedFor(r), "none") IN
                 /\ v.err = Nil
                 /\ v.result.Order.Reference = r
                 /\ Persisted(v.store, r).Status = OrderStatusAuthorized
                 /\ Persisted(v.store, r).PSPReference = "PSP-9"

\* C12 witness: the gateway refused the session of the first order, and the
\* order is in the table, Pending.
C12_Witness ==
    /\ IsCreate(last) /\ last.in.gw.err
    /\ last.err = ErrGateway
    /\ last.calls[Len(last.calls)] = Call("adyen.CreateSession", ErrGateway)
    /\ \E r \in AddedRefs : store[r].Status = OrderStatusPending

\* The rules of order construction.
ValidOrderInput(in) ==
    in.amount > 0 /\ Len(in.currency) = 3 /\ in.productName # ""

\* The store rejected the create of the call.
CreateRejected(l) ==
    \E i \in 1..Len(l.calls) :
        l.calls[i].call = "repo.CreateOrder" /\ l.calls[i].err # Nil

\* C13: if the inputs break a rule of order construction, or the store rejects
\* the create (a duplicate reference included), CreatePaymentSession returns
\* that error and no result, the orders table is as before the call, and the
\* gateway is not asked for a session.
C13_RejectedCreate ==
    (IsCreate(last) /\ (~ValidOrderInput(last.in) \/ CreateRejected(last)))
    => /\ last.err # Nil
       /\ ~ValidOrderInput(last.in)
             => last.err \in {ErrInvalidAmount, ErrInvalidCurrency, ErrInvalidProductName}
       /\ CreateRejected(last) => last.err = ErrDatabase
       /\ last.out = NoResult
       /\ store = last.pre
       /\ last.request = NoRequest
       /\ ~Called(last, "adyen.CreateSession")

\* C13 witness: a second valid order was asked for within the second of the
\* first; the store rejected its reference and the table is as it was.
C13_Witness ==
    /\ IsCreate(last) /\ ValidOrderInput(last.in) /\ ~last.in.fault
    /\ OrderRef(Unix(clock)) \in DOMAIN last.pre
    /\ last.err = ErrDatabase
    /\ store = last.pre

\* C14: any two orders returned by successful NewOrder calls have distinct
\* ids and distinct references, also when the calls fall within one clock
\* second.
C14_DistinctOrders ==
    \A i, j \in 1..Len(made) :
        i # j => /\ made[i].ID # made[j].ID
                 /\ made[i].Reference # made[j].Reference

IsNewOrder(l) == l.op = "NewOrder"

\* C15: NewOrder(productName, amount, currency) succeeds exactly when
\* amount > 0, the currency has 3 characters and productName is not empty; on
\* success the order is Pending, has a non-empty id and reference, an empty
\* pspReference and the given amount, currency and productName; otherwise it
\* returns no order and the validation error of a rule the inputs break.
C15_NewOrderContract ==
    IsNewOrder(newLast)
    => LET in == newLast.in
           o == newLast.out
       IN
       /\ (newLast.err = Nil) <=> ValidOrderInput(in)
       /\ newLast.err = Nil
            => /\ o # NoOrder
               /\ o.Status = OrderStatusPending
               /\ Len(o.ID) > 0
               /\ Len(o.Reference) > 0
               /\ o.PSPReference = ""
               /\ o.Amount = in.amount
               /\ o.Currency = in.currency
               /\ o.ProductName = in.productName
       /\ newLast.err # Nil
            => /\ o = NoOrder
               /\ \/ newLast.err = ErrInvalidAmount /\ in.amount <= 0
                  \/ newLast.err = ErrInvalidCurrency /\ Len(in.currency) # 3
                  \/ newLast.err = ErrInvalidProductName /\ in.productName = ""

\* C15 witness: after an order was made, NewOrder was called with a currency
\* of four characters and returned the currency error and no order.
C15_Witness ==
    /\ IsNewOrder(newLast)
    /\ Len(made) = 1
    /\ newLast.in.amount = 100 /\ newLast.in.productName = "Widget"
    /\ Len(newLast.in.currency) = 4
    /\ newLast.err = ErrInvalidCurrency
    /\ newLast.out = NoOrder

\* C16: Authorize(pspReference) succeeds exactly when the order is Pending and
\* pspReference is not empty; on success the order is Authorized and carries
\* the argument; it fails with the invalid-transition error when the order is
\* not Pending (so always on an order already Authorized) and with the
\* invalid-argument error when the order is Pending and pspReference is empty.
C16_AuthorizeContract ==
    ordLast.op = "Authorize"
    => LET b == ordLast.before
           p == ordLast.arg
       IN
       /\ (ordLast.err = Nil) <=> (b.Status = OrderStatusPending /\ p # "")
       /\ ordLast.err = Nil
            => ord.Status = OrderStatusAuthorized /\ ord.PSPReference = p
       /\ b.Status # OrderStatusPending => ordLast.err = ErrInvalidStatusTransition
       /\ (b.Status = OrderStatusPending /\ p = "") => ordLast.err = ErrEmptyPSPReference

\* C16 witness: a second Authorize, with another reference, on the order that
\* Authorize("PSP-1") made Authorized, failed with invalid-transition.
C16_Witness ==
    /\ ordLast.op = "Authorize" /\ ordLast.arg = "PSP-9"
    /\ ordLast.before.Status = OrderStatusAuthorized
    /\ ordLast.before.PSPReference = "PSP-1"
    /\ ordLast.err = ErrInvalidStatusTransition
    /\ ord.PSPReference = "PSP-1"

\* C17: Fail() succeeds exactly when the order is Pending or Failed and leaves
\* it Failed; it fails with the invalid-transition error when the order is
\* Authorized or Cancelled.
C17_FailContract ==
    ordLast.op = "Fail"
    => /\ (ordLast.err = Nil)
             <=> ordLast.before.Status \in {OrderStatusPending, OrderStatusFailed}
       /\ ordLast.err = Nil => ord.Status = OrderStatusFailed
       /\ ordLast.before.Status \in {OrderStatusAuthorized, OrderStatusCancelled}
            => ordLast.err = ErrInvalidStatusTransition

\* C17 witness: Fail on an order already Failed returned no error and the
\* order is Failed.
C17_Witness ==
    /\ ordLast.op = "Fail" /\ ordLast.err = Nil
    /\ ordLast.before.Status = OrderStatusFailed
    /\ ord.Status = OrderStatusFailed

\* C18: Cancel() succeeds exactly when the order is Pending, Failed or
\* Cancelled and leaves it Cancelled; it fails with the invalid-transition
\* error when the order is Authorized.
C18_CancelContract ==
    ordLast.op = "Cancel"
    => /\ (ordLast.err = Nil)
             <=> ordLast.before.Status \in
                    {OrderStatusPending, OrderStatusFailed, OrderStatusCancelled}
       /\ ordLast.err = Nil => ord.Status = OrderStatusCancelled
       /\ ordLast.before.Status = OrderStatusAuthorized
            => ordLast.err = ErrInvalidStatusTransition

\* C18 witness: Cancel on an order already Cancelled returned no error.
C18_Witness ==
    /\ ordLast.op = "Cancel" /\ ordLast.err = Nil
    /\ ordLast.before.Status = OrderStatusCancelled
    /\ ord.Status = OrderStatusCancelled

\* C19: when Authorize, Fail or Cancel returns an error, the order is as it
\* was before the call: status, pspReference, updatedAt and every other field.
C19_ErrorLeavesOrder ==
    (ordLast.op \in {"Authorize", "Fail", "Cancel"} /\ ordLast.err # Nil)
    => /\ ord.Status = ordLast.before.Status
       /\ ord.PSPReference = ordLast.before.PSPReference
       /\ ord.UpdatedAt = ordLast.before.UpdatedAt
       /\ ord = ordLast.before

\* C19 witness: Cancel was refused on an Authorized order at a time later
\* than the order's updatedAt, and the order is as it was.
C19_Witness ==
    /\ ordLast.op = "Cancel" /\ ordLast.err = ErrInvalidStatusTransition
    /\ ord.Status = OrderStatusAuthorized
    /\ ord.PSPReference = "PSP-9"
    /\ ord.UpdatedAt < clock

\* C20: in every reachable state, every order of the orders table and every
\* order returned by VerifyPayment has a non-empty pspReference only if its
\* status is Authorized.
C20_PspOnlyWhenAuthorized ==
    /\ \A r \in DOMAIN store :
          Persisted(store, r).PSPReference # ""
              => Persisted(store, r).Status = OrderStatusAuthorized
    /\ (IsVerify(last) /\ last.err = Nil)
          => (last.out.Order.PSPReference # ""
                 => last.out.Order.Status = OrderStatusAuthorized)

\* C21 as stated: over any sequence of VerifyPayment calls a row's status is
\* changed at most once, from Pending to Authorized, Failed or Cancelled, and
\* never again: every change of a row's status starts from Pending.
C21_ChangedOnce ==
    [][\A r \in DOMAIN store :
          store'[r].Status # store[r].Status
              => /\ store[r].Status = OrderStatusPending
                 /\ store'[r].Status \in {OrderStatusAuthorized, OrderStatusFailed,
                                          OrderStatusCancelled}]_vars

\* C21 amended: a row's status is changed only by a VerifyPayment for its
\* reference that returns without error, first from Pending to Authorized,
\* Failed or Cancelled, and after that only from Failed to Cancelled (by a
\* Cancelled outcome): at most twice in all, and a row that is Authorized or
\* Cancelled keeps its status.
C21_ChangedAtMostTwice ==
    [][\A r \in DOMAIN store :
          store'[r].Status # store[r].Status
              => /\ IsVerify(last') /\ last'.err = Nil /\ GwRef(last') = r
                 /\ store'[r].Status = mapResultCodeToStatus(GwCode(last'))
                 /\ \/ /\ store[r].Status = OrderStatusPending
                       /\ store'[r].Status \in {OrderStatusAuthorized, OrderStatusFailed,
                                                OrderStatusCancelled}
                    \/ /\ store[r].Status = OrderStatusFailed
                       /\ store'[r].Status = OrderStatusCancelled
                       /\ GwCode(last') = "Cancelled"]_vars

\* C21 witness: a Cancelled outcome was reconciled against the order an
\* earlier reconciliation left Failed, and the row is now Cancelled.
C21_Witness ==
    /\ IsVerify(last) /\ last.err = Nil
    /\ GwCode(last) = "Cancelled"
    /\ last.pre[GwRef(last)].Status = OrderStatusFailed
    /\ store[GwRef(last)].Status = OrderStatusCancelled

\* The call of p has run UpdateOrderStatus up to its end.
PastUpdate(p) == proc[p].pc \in {"returning", "done"} /\ proc[p].read # NoOrder

\* The transition the call of p applies to an order o.
ProcTransition(p, o) == Transition(o, ProcStatus(proc[p]), ProcPsp(proc[p]), clock).t

\* C22: two VerifyPayment calls for one order run concurrently without a
\* lock: whenever the transition of a call is legal on the order the call
\* fetched, the call has written its status, whatever the row held at the time
\* of the write; so the interleaving of the witness exists, where both calls
\* fetched the order as Pending and the Authorized written by the one was
\* replaced by the Failed of the other.
C22_WriteFollowsStaleRead ==
    \A p \in Procs :
        PastUpdate(p)
        => /\ proc[p].wrote <=> ProcTransition(p, proc[p].read).err = Nil
           /\ (proc[p].wrote /\ \A q \in Procs \ {p} : PastUpdate(q) => ~proc[q].wrote)
                 => Persisted(store, OrderRef(0)).Status = ProcStatus(proc[p])

\* C22 witness: both calls fetched the order as Pending; the first wrote
\* Authorized with PSP-9, the second replaced it by Failed, a change its
\* transition refuses on the row as it was; both returned.
C22_Witness ==
    /\ \A p \in Procs : proc[p].pc = "done" /\ proc[p].wrote
                          /\ proc[p].read.Status = OrderStatusPending
    /\ \E p \in Procs :
          /\ proc[p].over.Status = OrderStatusAuthorized
          /\ proc[p].over.PSPReference = "PSP-9"
          /\ ProcStatus(proc[p]) = OrderStatusFailed
          /\ ProcTransition(p, proc[p].over).err = ErrInvalidStatusTransition
    /\ Persisted(store, OrderRef(0)).Status = OrderStatusFailed
    /\ Persisted(store, OrderRef(0)).PSPReference = ""

\* The places of a call's log where the orders table is written.
WriteCalls == {"repo.CreateOrder", "repo.UpdateOrderStatus"}
Writes(l) == {i \in 1..Len(l.calls) : l.calls[i].call \in WriteCalls}

\* The references whose row the last call added or changed.
TouchedRefs ==
    {r \in DOMAIN store : r \notin DOMAIN last.pre \/ store[r] # last.pre[r]}

\* C23: a CreatePaymentSession call writes the orders table at most once, an
\* INSERT that comes before the gateway call; a VerifyPayment call writes at
\* most once, an UPDATE that comes after the gateway lookup and the order
\* fetch have both succeeded; either call adds or changes at most one row and
\* removes none.
C23_AtMostOneWrite ==
    /\ (IsCreate(last) \/ IsVerify(last))
          => /\ Cardinality(Writes(last)) <= 1
             /\ Cardinality(TouchedRefs) <= 1
             /\ DOMAIN last.pre \subseteq DOMAIN store
             /\ TouchedRefs # {} => \E i \in Writes(last) : last.calls[i].err = Nil
    /\ IsCreate(last)
          => \A i \in Writes(last) :
                /\ last.calls[i].call = "repo.CreateOrder"
                /\ \A j \in 1..Len(last.calls) :
                      last.calls[j].call = "adyen.CreateSession" => i < j
    /\ IsVerify(last)
          => \A i \in Writes(last) :
                /\ last.calls[i].call = "repo.UpdateOrderStatus"
                /\ i > 2
                /\ last.calls[1] = Call("adyen.GetSessionStatus", Nil)
                /\ last.calls[2] = Call("repo.GetOrderByReference", Nil)

\* C23 witness: a VerifyPayment wrote the status of an order, its one write
\* being the last of its calls, after the lookup and both fetches.
C23_Witness ==
    /\ IsVerify(last) /\ last.err = Nil
    /\ Len(last.calls) = 5
    /\ Writes(last) = {5}
    /\ last.calls[5] = Call("repo.UpdateOrderStatus", Nil)
    /\ TouchedRefs = {GwRef(last)}

\* C24: mapResultCodeToStatus answers every result code: "Authorised" with
\* authorized, "Refused" and "Error" with failed, "Cancelled" with cancelled,
\* and every other string, the empty one and "Pending" included, with pending.
C24_MappingTotal ==
    last.op = "mapResultCodeToStatus"
    => /\ last.in = "Authorised" => last.out = OrderStatusAuthorized
       /\ last.in \in {"Refused", "Error"} => last.out = OrderStatusFailed
       /\ last.in = "Cancelled" => last.out = OrderStatusCancelled
       /\ last.in \notin {"Authorised", "Refused", "Error", "Cancelled"}
            => last.out = OrderStatusPending

\* C24 witness: the code "Error" was mapped, to failed.
C24_Witness ==
    /\ last.op = "mapResultCodeToStatus"
    /\ last.in = "Error"
    /\ last.out = OrderStatusFailed

\* floor(amount * 10000 / (10000 + rate)) in the integers, for amount >= 0
\* and rate >= 0, computed from the quotient and remainder of amount by
\* 10000 + rate so that no intermediate value is larger than amount * 3.
ExactExcludingTax(amount, rate) ==
    LET d == 10000 + rate
        q == amount \div d
        r == amount % d
    IN q * 10000 + (r * 10000) \div d

\* C25: for every amount including tax and every rate in basis points,
\* calculateAmountExcludingTax returns floor(amount * 10000 / (10000 + rate))
\* and calculateTaxAmount returns the amount minus that value, so that the two
\* add up to the amount.
C25_TaxSplit ==
    (last.op = "calculateTax" /\ last.in.amount >= 0 /\ last.in.rate >= 0)
    => /\ last.out.excluding = ExactExcludingTax(last.in.amount, last.in.rate)
       /\ last.out.tax = last.in.amount - last.out.excluding
       /\ last.out.excluding + last.out.tax = last.in.amount

\* C26: VerifyPayment reports the resultCode and pspReference of the first
\* payment attempt of the outcome, whatever attempts follow it; when the
\* outcome has no attempt both are empty, and if the order exists (and no
\* store operation fails) the call returns without error and reports Pending.
C26_FirstAttemptOnly ==
    (IsVerify(last) /\ ~last.in.gw.err)
    => LET payments == last.in.gw.Payments IN
       /\ (last.err = Nil /\ payments # <<>>)
            => /\ last.out.ResultCode = payments[1].ResultCode
               /\ last.out.PSPReference = payments[1].PSPReference
               /\ last.out.Status = mapResultCodeToStatus(payments[1].ResultCode)
       /\ (payments = <<>> /\ GwRef(last) \in DOMAIN last.pre /\ NoStoreFault(last))
            => /\ last.err = Nil
               /\ last.out.ResultCode = ""
               /\ last.out.PSPReference = ""
               /\ last.out.Status = OrderStatusPending
               /\ store = last.pre

\* C26 witness: an outcome without any attempt was reconciled for an order
\* in the table; the call returned empty strings and Pending without error.
C26_Witness ==
    /\ IsVerify(last) /\ ~last.in.gw.err
    /\ last.in.gw.Payments = <<>>
    /\ GwRef(last) \in DOMAIN store
    /\ last.err = Nil
    /\ last.out.ResultCode = "" /\ last.out.Status = OrderStatusPending

IsServe(l) == l.op = "ServeHTTP"

\* The handler called VerifyPayment.
Verified(l) == l.calls # <<>>

\* C27: the confirmation handler calls VerifyPayment only for a GET request
\* with a non-empty sessionId, passing it the sessionId and sessionResult of
\* the query: another method gets 405 and a missing or empty sessionId 400,
\* both without a call; an error of VerifyPayment gets 500; a result whose
\* status is not authorized gets a 303 redirect to /order/failed with the
\* order's reference and the raw result code; the confirmation page and the
\* status 200 are sent only for a result whose status is authorized.
C27_ConfirmationHandler ==
    IsServe(last)
    => LET in == last.in
           sessionID == QueryGet(in.query, "sessionId")
       IN
       /\ Verified(last) <=> (in.method = "GET" /\ sessionID # "")
       /\ Verified(last)
            => /\ Len(last.calls) = 1
               /\ last.calls[1].sessionID = sessionID
               /\ last.calls[1].sessionResult = QueryGet(in.query, "sessionResult")
       /\ in.method # "GET" => last.out.code = 405
       /\ (in.method = "GET" /\ sessionID = "") => last.out.code = 400
       /\ (Verified(last) /\ in.verify.err) => last.out.code = 500
       /\ (Verified(last) /\ ~in.verify.err
             /\ in.verify.Status # OrderStatusAuthorized)
            => /\ last.out.code = 303
               /\ last.out.location
                     = FailureURL(in.verify.Order.Reference, in.verify.ResultCode)
       /\ last.out.code = 200
            => /\ Verified(last) /\ ~in.verify.err
               /\ in.verify.Status = OrderStatusAuthorized
       /\ (Verified(last) /\ ~in.verify.err
             /\ in.verify.Status = OrderStatusAuthorized /\ in.tmpl = "ok")
            => /\ last.out.code = 200
               /\ last.out.body = [Order |-> in.verify.Order, Status |-> "Authorized"]

\* C27 witness: a GET with a sessionId whose verification reported pending
\* (an unrecognized code) was redirected to the failure page.
C27_Witness ==
    /\ IsServe(last) /\ Verified(last)
    /\ ~last.in.verify.err
    /\ last.in.verify.Status = OrderStatusPending
    /\ last.in.verify.ResultCode = "Received"
    /\ last.out.code = 303
    /\ last.out.location = FailureURL(OrderRef(0), "Received")

IsUpdate(l) == l.op = "UpdateOrderStatus"

\* The domain method UpdateOrderStatus calls for a status string.
TransitionFor(status) ==
    IF status = OrderStatusAuthorized THEN "order.Authorize"
    ELSE IF status = OrderStatusFailed THEN "order.Fail"
    ELSE "order.Cancel"

\* C28: OrderServiceImpl.UpdateOrderStatus writes to the repository only
\* after it fetched the order and the transition for the status (Authorize,
\* Fail or Cancel) succeeded on it; for a status string other than
\* authorized, failed and cancelled, for a failed fetch and for a transition
\* that returns an error it returns an error, makes no repository write and
\* leaves the orders table as it was.
C28_WriteAfterTransition ==
    IsUpdate(last)
    => LET calls == last.calls
           known == last.in.status \in {OrderStatusAuthorized, OrderStatusFailed,
                                        OrderStatusCancelled}
       IN
       /\ \A i \in Writes(last) :
             /\ i = 3 /\ Len(calls) = 3 /\ known
             /\ calls[1] = Call("repo.GetOrderByReference", Nil)
             /\ calls[2] = Call(TransitionFor(last.in.status), Nil)
             /\ calls[3].call = "repo.UpdateOrderStatus"
       /\ store # last.pre => \E i \in Writes(last) : calls[i].err = Nil
       /\ ~known
            => last.err = ErrInvalidOrderStatus \/ calls[1].err # Nil
       /\ (~known \/ calls[1].err # Nil
             \/ (Len(calls) >= 2 /\ calls[2].err # Nil))
            => /\ last.err # Nil
               /\ Writes(last) = {}
               /\ store = last.pre
       /\ (Len(calls) >= 2 /\ calls[2].err # Nil) => last.err = calls[2].err

\* C28 witness: authorized was asked for an order that is Failed; Authorize
\* refused, nothing was written and the row is still Failed.
C28_Witness ==
    /\ IsUpdate(last)
    /\ last.in.status = OrderStatusAuthorized /\ last.in.pspReference = "PSP-9"
    /\ last.calls = <<Call("repo.GetOrderByReference", Nil),
                      Call("order.Authorize", ErrInvalidStatusTransition)>>
    /\ last.err = ErrInvalidStatusTransition
    /\ store[last.in.reference].Status = OrderStatusFailed

\* A step that is a call of repo.UpdateOrderStatus.
IsRepoUpdateStep ==
    /\ last'.op = "repo.UpdateOrderStatus"
    /\ last'.pre = store
    /\ clock' = clock

\* C29: the repository's UpdateOrderStatus(reference, status, pspReference)
\* applies no transition rule. For a stored reference (and a database that
\* answers) it returns no error and the row's status and pspReference are
\* the arguments, whatever the row's status was; the row's other columns
\* but updatedAt, and the other rows, stay. For a reference that is not
\* stored it returns an error and the table is unchanged.
C29_RepositoryOverwrites ==
    [][IsRepoUpdateStep
       => LET in == last'.in
              r == in.reference
          IN
          /\ (r \in DOMAIN store /\ ~in.fault)
               => /\ last'.err = Nil
                  /\ DOMAIN store' = DOMAIN store
                  /\ store'[r] = [store[r] EXCEPT !.Status = in.status,
                                                  !.PSPReference = in.pspReference,
                                                  !.UpdatedAt = clock]
                  /\ \A o \in DOMAIN store \ {r} : store'[o] = store[o]
          /\ r \notin DOMAIN store
               => /\ last'.err # Nil
                  /\ store' = store]_vars

\* C29 witness: the row was Authorized with PSP-9; UpdateOrderStatus with
\* failed and no pspReference returned no error and the row is Failed.
C29_Witness ==
    /\ last.op = "repo.UpdateOrderStatus"
    /\ last.in.reference \in DOMAIN last.pre
    /\ last.pre[last.in.reference].Status = OrderStatusAuthorized
    /\ last.pre[last.in.reference].PSPReference = "PSP-9"
    /\ last.in.status = OrderStatusFailed /\ last.in.pspReference = ""
    /\ last.err = Nil
    /\ store[last.in.reference].Status = OrderStatusFailed
    /\ store[last.in.reference].PSPReference = ""

\* The goroutines whose CreateOrder has returned, and those it returned no
\* error to.
Returned == {p \in Goroutines : proc[p].pc = "done"}
Created == {p \in Returned : proc[p].err = Nil}

\* C30: the orders table never holds two orders with the same reference.
\* Every row is the order of exactly one CreateOrder that returned no error,
\* and no two of those have the same reference. A CreateOrder whose
\* reference is already stored returns an error and leaves the table as it
\* was, in every interleaving of the goroutines; a CreateOrder returns an
\* error only then, so goroutines with distinct references all succeed.
C30_UniqueReference ==
    /\ [](/\ \A r \in DOMAIN store : store[r].Reference = r
          /\ Cardinality(Created) = Cardinality(DOMAIN store)
          /\ \A p, q \in Created :
                p # q => proc[p].order.Reference # proc[q].order.Reference
          /\ \A p \in Created :
                /\ proc[p].over = NoOrder
                /\ proc[p].order.Reference \in DOMAIN store
                /\ Persisted(store, proc[p].order.Reference) = proc[p].order
          /\ \A p \in Returned \ Created :
                /\ proc[p].over # NoOrder
                /\ proc[p].over.ID # proc[p].order.ID
                /\ Persisted(store, proc[p].order.Reference) = proc[p].over
                /\ \E q \in Created :
                      proc[q].order.Reference = proc[p].order.Reference)
    /\ [][\A p \in Goroutines :
            (proc[p].pc = "insert" /\ proc'[p].pc = "done")
            => IF proc[p].order.Reference \in DOMAIN store
               THEN proc'[p].err # Nil /\ store' = store
               ELSE proc'[p].err = Nil]_vars

\* C30 witness: goroutines 1 and 2 used the same reference and 3 another;
\* 2 inserted first, so 1 got an error and the row is still the order of 2,
\* and 3 succeeded.
C30_Witness ==
    /\ Returned = Goroutines
    /\ Created = {2, 3}
    /\ proc[1].order.Reference = OrderRef(0)
    /\ proc[2].order.Reference = OrderRef(0)
    /\ proc[3].order.Reference = OrderRef(1)
    /\ proc[1].err # Nil
    /\ store[OrderRef(0)].ID = proc[2].order.ID
    /\ store[OrderRef(0)].Amount = 1002
    /\ DOMAIN store = {OrderRef(0), OrderRef(1)}

\* All three goroutines chose distinct references before any inserted, and
\* all three have returned.
C30_DistinctAllCreated ==
    /\ Created = Goroutines
    /\ Cardinality(DOMAIN store) = 3

\* The fields of an order that are set when it is created.
Identity(o) ==
    [ID |-> o.ID, Reference |-> o.Reference, Amount |-> o.Amount,
     Currency |-> o.Currency, ProductName |-> o.ProductName]

\* What Authorize, Fail and Cancel make of an order at the current time.
TransitionResults(o) ==
    {Authorize(o, psp, clock).order : psp \in {"", "PSP-9"}}
    \cup {Fail(o, clock).order, Cancel(o, clock).order}

\* C31: once an order is stored, its id, reference, amount, currency and
\* productName never change and its row never leaves the orders table: no
\* CreatePaymentSession (for the same second or another) and no
\* VerifyPayment changes more of an existing row than status, pspReference
\* and updatedAt, and Authorize, Fail and Cancel, called on a stored order,
\* return an order with the same five fields.
C31_IdentityKept ==
    /\ [][\A r \in DOMAIN store :
             /\ r \in DOMAIN store'
             /\ store'[r] = [store[r] EXCEPT !.Status = store'[r].Status,
                                             !.PSPReference = store'[r].PSPReference,
                                             !.UpdatedAt = store'[r].UpdatedAt]]_vars
    /\ [](\A r \in DOMAIN store :
             /\ store[r].Reference = r
             /\ \A o \in TransitionResults(Persisted(store, r)) :
                   Identity(o) = Identity(store[r]))

\* C31 witness: a VerifyPayment changed the status of one stored order while
\* a second order was stored, and a CreatePaymentSession for another order
\* ran while an order that is no longer Pending was stored; both orders
\* have the id, amount, currency and productName they were created with.
C31_Witness ==
    /\ DOMAIN store = {OrderRef(0), OrderRef(1)}
    /\ store[OrderRef(0)].Status = OrderStatusCancelled
    /\ store[OrderRef(0)].UpdatedAt > store[OrderRef(0)].CreatedAt
    /\ store[OrderRef(1)].CreatedAt > store[OrderRef(0)].UpdatedAt
    /\ \A r \in DOMAIN store :
          /\ store[r].Amount = 100 /\ store[r].Currency = USD
          /\ store[r].ProductName = "Widget"
    /\ store[OrderRef(0)].ID = UUID(0)
    /\ store[OrderRef(1)].ID = UUID(1)

\* A step that is a call of Authorize, Fail or Cancel on the Order value.
IsTransitionStep == clock' = clock /\ ordLast'.op # "none" /\ ordLast'.before = ord

\* C32: the clock never goes back; every Authorize, Fail or Cancel that
\* returns no error, the Fail of a Failed order and the Cancel of a
\* Cancelled one included, sets updatedAt to the clock's value at the call.
\* So updatedAt never decreases, createdAt never changes, and
\* updatedAt >= createdAt in every reachable state.
C32_UpdatedAtAdvances ==
    /\ [][/\ clock' >= clock
          /\ ord'.CreatedAt = ord.CreatedAt
          /\ ord'.UpdatedAt >= ord.UpdatedAt
          /\ (IsTransitionStep /\ ordLast'.err = Nil) => ord'.UpdatedAt = clock]_vars
    /\ [](ord.UpdatedAt >= ord.CreatedAt /\ ord.UpdatedAt <= clock)

\* C32 witness: Fail was called on an order that had been Failed since an
\* earlier tick; it returned no error and updatedAt is the clock's value.
C32_Witness ==
    /\ ordLast.op = "Fail" /\ ordLast.err = Nil
    /\ ordLast.before.Status = OrderStatusFailed
    /\ ordLast.before.UpdatedAt < clock
    /\ ordLast.before.UpdatedAt > ord.CreatedAt
    /\ ord.UpdatedAt = clock

\* The server neither accepts nor serves any more.
Stopped ==
    /\ server.inShutdown
    /\ ~server.serving /\ ~server.tracked
    /\ \A c \in Conns : server.conns[c] \notin {"active", "idle"}

\* C33: WaitForShutdown leaves its receive only by taking a signal from the
\* channel, so it does not return before a signal arrived; once it has
\* taken one it eventually returns, and whenever it has returned the result
\* is nil and the server is stopped: with requests in flight, after the
\* timeout of the graceful shutdown and the forced Close, and for a server
\* that was closed before.
C33_ShutdownReturnsNil ==
    /\ [][(proc[Waiter].pc = "receive" /\ proc'[Waiter].pc # "receive")
            => /\ shutdown # <<>>
               /\ proc'[Waiter].sig = Head(shutdown)]_vars
    /\ [](proc[Waiter].pc = "done"
            => /\ proc[Waiter].sig \in Signals
               /\ proc[Waiter].out = Nil
               /\ Stopped)
    /\ (proc[Waiter].pc # "receive") ~> (proc[Waiter].pc = "done")

\* C33 witness: two requests were in flight, the timeout passed, Shutdown
\* returned the context's error, Close cut the connections and
\* WaitForShutdown returned nil.
C33_Witness ==
    /\ proc[Waiter].pc = "done"
    /\ proc[Waiter].sig = "SIGTERM"
    /\ proc[Waiter].err = DeadlineExceeded
    /\ proc[Waiter].out = Nil
    /\ \A c \in Conns : server.conns[c] = "forced"

\* The rules of NewOrder that the inputs of a call break.
BrokenRules(in) ==
    {e \in {ErrInvalidAmount, ErrInvalidCurrency, ErrInvalidProductName} :
        \/ e = ErrInvalidAmount /\ in.amount <= 0
        \/ e = ErrInvalidCurrency /\ Len(in.currency) # 3
        \/ e = ErrInvalidProductName /\ in.productName = ""}

\* C34: when the inputs of NewOrder break several rules at once, NewOrder
\* returns one error, chosen by a fixed precedence: the amount error whenever
\* amount <= 0, otherwise the currency error whenever the currency has not 3
\* characters, otherwise the product name error; and whenever a rule is
\* broken no order is returned nor counted as made.
C34_ErrorPrecedence ==
    /\ [](IsNewOrder(newLast)
            => LET broken == BrokenRules(newLast.in) IN
               /\ ErrInvalidAmount \in broken => newLast.err = ErrInvalidAmount
               /\ (ErrInvalidAmount \notin broken /\ ErrInvalidCurrency \in broken)
                     => newLast.err = ErrInvalidCurrency
               /\ broken = {ErrInvalidProductName}
                     => newLast.err = ErrInvalidProductName
               /\ broken # {} => newLast.out = NoOrder)
    /\ [][(IsNewOrder(newLast') /\ BrokenRules(newLast'.in) # {} /\ clock' = clock)
            => made' = made /\ nextId' = nextId]_vars

\* C34 witness: NewOrder was called with an amount of 0, a currency of two
\* characters and no product name; it returned the amount error and no order.
C34_Witness ==
    /\ IsNewOrder(newLast)
    /\ BrokenRules(newLast.in)
          = {ErrInvalidAmount, ErrInvalidCurrency, ErrInvalidProductName}
    /\ newLast.in.amount = 0 /\ Len(newLast.in.currency) = 2
    /\ newLast.err = ErrInvalidAmount
    /\ newLast.out = NoOrder
    /\ Len(made) = 1

\* NewOrder was called with a valid amount, a currency of four characters
\* and no product name, and returned the currency error.
C34_CurrencyBeforeName ==
    /\ IsNewOrder(newLast)
    /\ BrokenRules(newLast.in) = {ErrInvalidCurrency, ErrInvalidProductName}
    /\ newLast.err = ErrInvalidCurrency
    /\ newLast.out = NoOrder

\* C35: for every amount > 0 and every rate >= 0, with amount * 10000
\* evaluated in the width of a Go int64, the tax split stays within bounds:
\* 0 <= excluding <= amount and 0 <= tax <= amount.
C35_TaxWithinBounds ==
    (last.op = "calculateTax" /\ last.in.amount > 0 /\ last.in.rate >= 0)
    => /\ 0 <= last.out.excluding /\ last.out.excluding <= last.in.amount
       /\ 0 <= last.out.tax /\ last.out.tax <= last.in.amount

====
